---- MODULE Spec2Model ----
(***************************************************************************)
(* CODEOWNERS ownership engine of dev_tools: pattern matching              *)
(* (GithubOwnerShip.is_file_covered_by_pattern), last-match-wins lookup    *)
(* (GithubOwnerShip.get_owners), the rule audit                            *)
(* (check_if_codeowners_has_ineffective_rules), the parser                 *)
(* (get_ownership_entries), the existence check                            *)
(* (check_if_all_codeowners_folders_exist), resolve_file_in_dir and the    *)
(* team-ownership check (check_for_files_without_team_ownership).          *)
(*                                                                         *)
(* Strings are sequences of one-character strings, so that slicing,        *)
(* stripping, splitting and regular-expression matching are computed the   *)
(* way the Python code computes them.                                      *)
(***************************************************************************)
EXTENDS Integers, Sequences, FiniteSets, TLC

VARIABLES
    all_entries,   \* the parsed rules in file order (get_ownership_entries)
    ownerships,    \* GithubOwnerShip._ownerships: the rules in reverse file order
    cache,         \* CachedRegex._cache: needle -> flags it was compiled with
    file,          \* the repository-relative path of the query, as a string
    pattern,       \* the pattern argument of is_file_covered_by_pattern
    covered,       \* result of is_file_covered_by_pattern ("none" before the call)
    owners,        \* result of get_owners ("none" before the call)
    tree,          \* the OwnerShipTreeNode tree: node path -> [owners, line_number]
    idx,           \* number of entries already inserted by _populate_tree
    return_code,   \* the ReturnCode accumulated by the audit, as a set of flags
    reports,       \* the messages printed by the audit
    pc,            \* position of the run
    fs,            \* the entries that exist under the repository root
    text,          \* the lines of the CODEOWNERS file
    repo_dir,      \* the repository root (dir of resolve_file_in_dir)
    resolved,      \* result of resolve_file_in_dir ("none" before the call)
    changed_files, \* changed_files of check_for_files_without_team_ownership
    tracked_files, \* what git ls-files lists
    codeowners_owner, \* the --codeowners-owner argument, or None
    method,        \* the query made of a GithubOwnerShip: <<name, argument>>
    twin           \* a second GithubOwnerShip object built from the same file

\* the surroundings of a run: file system, file text, arguments
env == <<fs, text, repo_dir, resolved, changed_files, tracked_files, codeowners_owner,
         method, twin>>

vars == <<all_entries, ownerships, cache, file, pattern, covered, owners,
          tree, idx, return_code, reports, pc, env>>

\* Python's None
None == "None"

\* a run that uses none of the surroundings
EnvIdle ==
    /\ fs = {}
    /\ text = <<>>
    /\ repo_dir = <<>>
    /\ resolved = "none"
    /\ changed_files = {}
    /\ tracked_files = {}
    /\ codeowners_owner = None
    /\ method = <<>>
    /\ twin = <<>>

(***************************************************************************)
(* Bounds of the model.                                                    *)
(***************************************************************************)
MaxPathLen == 5
MaxPatLen == 4
MaxRules == 3
MaxIndexRules == 2
MaxQueryLen == 3

(***************************************************************************)
(* Python str helpers.                                                     *)
(***************************************************************************)
SL == "/"
STAR == "*"

StringsOver(S, lo, hi) == UNION {[1..k -> S] : k \in lo..hi}

\* str.startswith(prefix)
StartsWith(s, p) == Len(s) >= Len(p) /\ SubSeq(s, 1, Len(p)) = p

\* str.endswith(suffix)
EndsWith(s, p) == Len(s) >= Len(p) /\ SubSeq(s, Len(s) - Len(p) + 1, Len(s)) = p

\* s[1:]
Tail1(s) == IF Len(s) = 0 THEN <<>> ELSE SubSeq(s, 2, Len(s))

\* str.rstrip("/")
RECURSIVE RStripSlash(_)
RStripSlash(s) ==
    IF Len(s) > 0 /\ s[Len(s)] = SL THEN RStripSlash(SubSeq(s, 1, Len(s) - 1)) ELSE s

\* c in s, for a character c
HasChar(s, c) == \E i \in 1..Len(s) : s[i] = c

\* str.find(needle, start): the lowest index >= i at which needle occurs, 0 if none
RECURSIVE FindFrom(_, _, _)
FindFrom(s, needle, i) ==
    IF i + Len(needle) - 1 > Len(s) THEN 0
    ELSE IF SubSeq(s, i, i + Len(needle) - 1) = needle THEN i
    ELSE FindFrom(s, needle, i + 1)

\* needle in s, for strings
StrContains(s, needle) == FindFrom(s, needle, 1) # 0

\* str.replace("*", "(.*)")
RECURSIVE ReplaceStar(_)
ReplaceStar(s) ==
    IF Len(s) = 0 THEN <<>>
    ELSE (IF s[1] = STAR THEN <<"(", ".", "*", ")">> ELSE <<s[1]>>) \o ReplaceStar(Tail(s))

(***************************************************************************)
(* pathlib.PurePosixPath: a path is its tuple of parts; an absolute path   *)
(* has its root ("/" or "//") as first part.  Empty and "." segments are   *)
(* dropped when a string is parsed.                                        *)
(***************************************************************************)
RECURSIVE SplitSegments(_, _)
SplitSegments(s, cur) ==
    IF Len(s) = 0 THEN (IF cur = <<>> \/ cur = <<".">> THEN <<>> ELSE <<cur>>)
    ELSE IF s[1] = SL
         THEN (IF cur = <<>> \/ cur = <<".">> THEN <<>> ELSE <<cur>>) \o SplitSegments(Tail(s), <<>>)
         ELSE SplitSegments(Tail(s), Append(cur, s[1]))

\* the root pathlib parses off a string: "//" for exactly two leading slashes
PathRoot(s) ==
    IF ~StartsWith(s, <<SL>>) THEN <<>>
    ELSE IF StartsWith(s, <<SL, SL>>) /\ ~StartsWith(s, <<SL, SL, SL>>) THEN <<SL, SL>>
    ELSE <<SL>>

\* mutant: the root is not a part of the path
PathParts_NoRoot(s) == SplitSegments(s, <<>>)

\* Path(s).parts
PathParts(s) ==
    (IF PathRoot(s) = <<>> THEN <<>> ELSE <<PathRoot(s)>>) \o SplitSegments(s, <<>>)

RECURSIVE JoinParts(_)
JoinParts(parts) ==
    IF Len(parts) = 0 THEN <<>>
    ELSE IF Len(parts) = 1 THEN parts[1]
    ELSE parts[1] \o <<SL>> \o JoinParts(Tail(parts))

\* str(path) of a relative path
PathStr(parts) == IF Len(parts) = 0 THEN <<".">> ELSE JoinParts(parts)

\* path.name of a relative path
PathName(parts) == IF Len(parts) = 0 THEN <<>> ELSE parts[Len(parts)]

\* path.parents of a relative path: every proper ancestor, down to Path(".")
PathParents(parts) == {SubSeq(parts, 1, k) : k \in 0..(Len(parts) - 1)}

(***************************************************************************)
(* re: the regular expressions _match_pattern_with_asterisks builds are    *)
(* made of literal characters, the dot (any character), the greedy         *)
(* capturing group and the lazy prefix.  ReCompile tokenises the regex     *)
(* string; ReMatch is re.Pattern.match, a backtracking match anchored at   *)
(* the start of the haystack and free at its end, which returns the first  *)
(* match in backtracking order together with its groups.  The flags the    *)
(* pattern was compiled with decide how two characters compare.            *)
(***************************************************************************)
DefaultFlags == 0
IGNORECASE == 2

Lower(c) == IF c = "A" THEN "a" ELSE IF c = "B" THEN "b" ELSE c

\* a literal of the pattern against a character of the haystack
CharMatches(lit, c, flags) == IF flags = IGNORECASE THEN Lower(lit) = Lower(c) ELSE lit = c

GROUP == "GROUP"
LAZY == "LAZY"
ANY == "ANY"

RECURSIVE ReCompile(_)
ReCompile(needle) ==
    IF Len(needle) = 0 THEN <<>>
    ELSE IF StartsWith(needle, <<"(", ".", "*", ")">>)
         THEN <<GROUP>> \o ReCompile(SubSeq(needle, 5, Len(needle)))
    ELSE IF StartsWith(needle, <<".", "*", "?">>)
         THEN <<LAZY>> \o ReCompile(SubSeq(needle, 4, Len(needle)))
    ELSE IF needle[1] = "."
         THEN <<ANY>> \o ReCompile(Tail(needle))
    ELSE <<needle[1]>> \o ReCompile(Tail(needle))

NoMatch == [matched |-> FALSE, groups |-> <<>>]

RECURSIVE MatchHere(_, _, _, _, _, _), TryGreedy(_, _, _, _, _, _, _), TryLazy(_, _, _, _, _, _)
\* match toks[i..] against s[j..]; gs are the groups captured so far
MatchHere(toks, i, s, j, gs, flags) ==
    IF i > Len(toks) THEN [matched |-> TRUE, groups |-> gs]
    ELSE IF toks[i] = GROUP THEN TryGreedy(toks, i, s, j, Len(s), gs, flags)
    ELSE IF toks[i] = LAZY THEN TryLazy(toks, i, s, j, gs, flags)
    ELSE IF j > Len(s) THEN NoMatch
    ELSE IF toks[i] = ANY \/ CharMatches(toks[i], s[j], flags)
         THEN MatchHere(toks, i + 1, s, j + 1, gs, flags)
    ELSE NoMatch

\* "(.*)": the group takes s[j..k], the longest k tried first
TryGreedy(toks, i, s, j, k, gs, flags) ==
    IF k < j - 1 THEN NoMatch
    ELSE LET r == MatchHere(toks, i + 1, s, k + 1, Append(gs, SubSeq(s, j, k)), flags)
         IN  IF r.matched THEN r ELSE TryGreedy(toks, i, s, j, k - 1, gs, flags)

\* ".*?": skips as few characters as possible
TryLazy(toks, i, s, j, gs, flags) ==
    IF j > Len(s) + 1 THEN NoMatch
    ELSE LET r == MatchHere(toks, i + 1, s, j, gs, flags)
         IN  IF r.matched THEN r ELSE TryLazy(toks, i, s, j + 1, gs, flags)

\* re.compile(needle, flags).match(haystack)
ReMatch(needle, haystack, flags) ==
    MatchHere(ReCompile(needle), 1, haystack, 1, <<>>, flags)

(***************************************************************************)
(* CachedRegex and the pattern matcher of GithubOwnerShip.  Every operator *)
(* that may compile a regex takes the cache and returns the new cache      *)
(* beside its result.                                                      *)
(***************************************************************************)
ReError == "re.error"

\* re.compile(needle) raises re.error: a "[" opens a character set, which is
\* unterminated unless a "]" follows its first member
ReCompileRaises(needle) ==
    \E i \in 1..Len(needle) :
        /\ needle[i] = "["
        /\ \A q \in 1..(i - 1) : needle[q] # "["
        /\ \A k \in (i + 2)..Len(needle) : needle[k] # "]"

\* mutant: a needle found in the cache is not matched against the haystack
CachedRegexMatch_StaleHit(c, needle, haystack, flags) ==
    IF needle \notin DOMAIN c /\ ReCompileRaises(needle)
    THEN [cache |-> c, match |-> NoMatch, raised |-> ReError]
    ELSE IF needle \in DOMAIN c
    THEN [cache |-> c, match |-> NoMatch, raised |-> None]
    ELSE [cache |-> c @@ (needle :> flags),
          match |-> ReMatch(needle, haystack, flags), raised |-> None]

\* CachedRegex.match(needle, haystack, flags): the cache, the match, and the
\* error raised by the compilation if any.  A needle found in the cache is
\* matched by the pattern stored there, compiled with the flags of the call
\* that stored it.
CachedRegexMatch(c, needle, haystack, flags) ==
    IF needle \notin DOMAIN c /\ ReCompileRaises(needle)
    THEN [cache |-> c, match |-> NoMatch, raised |-> ReError]
    ELSE LET compiled == IF needle \in DOMAIN c THEN c ELSE c @@ (needle :> flags)
         IN  [cache |-> compiled,
              match |-> ReMatch(needle, haystack, compiled[needle]), raised |-> None]

\* mutant: the anchored pattern is given the free prefix too
RegexOfPattern_Unanchored(pat) ==
    <<".", "*", "?">> \o (IF StartsWith(pat, <<SL>>) THEN Tail1(ReplaceStar(pat))
                          ELSE ReplaceStar(pat))

\* the regex _match_pattern_with_asterisks hands to the cache
RegexOfPattern(pat) ==
    IF StartsWith(pat, <<SL>>) THEN Tail1(ReplaceStar(pat))
    ELSE <<".", "*", "?">> \o ReplaceStar(pat)

\* mutant: the last group is not compared with the file name
MatchPatternWithAsterisks_NoNameCheck(c, filepath_string, filename, pat) ==
    LET m == CachedRegexMatch(c, RegexOfPattern(pat), filepath_string, DefaultFlags)
    IN  [cache |-> m.cache, result |-> m.match.matched, raised |-> m.raised]

\* GithubOwnerShip._match_pattern_with_asterisks
MatchPatternWithAsterisks(c, filepath_string, filename, pat) ==
    LET m == CachedRegexMatch(c, RegexOfPattern(pat), filepath_string, DefaultFlags)
    IN  [cache |-> m.cache,
         result |-> IF EndsWith(pat, <<SL, STAR>>)
                    THEN (IF ~m.match.matched THEN FALSE
                          ELSE m.match.groups[Len(m.match.groups)] = filename)
                    ELSE m.match.matched,
         raised |-> m.raised]

\* mutant: the anchored pattern is compared as a string prefix, not by segments
IsFileCoveredByPattern_StringPrefix(c, filepath_in_repo, pat) ==
    IF HasChar(pat, STAR)
    THEN MatchPatternWithAsterisks(c, PathStr(filepath_in_repo), PathName(filepath_in_repo), pat)
    ELSE IF StartsWith(pat, <<SL>>)
    THEN [cache |-> c,
          result |-> StartsWith(PathStr(filepath_in_repo), RStripSlash(Tail1(pat))),
          raised |-> None]
    ELSE [cache |-> c, result |-> StrContains(PathStr(filepath_in_repo), RStripSlash(pat)),
          raised |-> None]

\* mutant: the unanchored pattern keeps its trailing slash
IsFileCoveredByPattern_NoRStrip(c, filepath_in_repo, pat) ==
    IF HasChar(pat, STAR)
    THEN MatchPatternWithAsterisks(c, PathStr(filepath_in_repo), PathName(filepath_in_repo), pat)
    ELSE IF StartsWith(pat, <<SL>>)
    THEN LET path_from_pattern == PathParts(RStripSlash(Tail1(pat)))
         IN  [cache |-> c,
              result |-> path_from_pattern = filepath_in_repo
                         \/ path_from_pattern \in PathParents(filepath_in_repo),
              raised |-> None]
    ELSE [cache |-> c, result |-> StrContains(PathStr(filepath_in_repo), pat),
          raised |-> None]

\* mutant: an anchored pattern covers only the path it names, not what is below
IsFileCoveredByPattern_ExactOnly(c, filepath_in_repo, pat) ==
    IF HasChar(pat, STAR)
    THEN MatchPatternWithAsterisks(c, PathStr(filepath_in_repo), PathName(filepath_in_repo), pat)
    ELSE IF StartsWith(pat, <<SL>>)
    THEN [cache |-> c,
          result |-> PathParts(RStripSlash(Tail1(pat))) = filepath_in_repo,
          raised |-> None]
    ELSE [cache |-> c, result |-> StrContains(PathStr(filepath_in_repo), RStripSlash(pat)),
          raised |-> None]

\* GithubOwnerShip.is_file_covered_by_pattern; filepath_in_repo is a relative Path
IsFileCoveredByPattern(c, filepath_in_repo, pat) ==
    IF HasChar(pat, STAR)
    THEN MatchPatternWithAsterisks(c, PathStr(filepath_in_repo), PathName(filepath_in_repo), pat)
    ELSE IF StartsWith(pat, <<SL>>)
    THEN LET path_from_pattern == PathParts(RStripSlash(Tail1(pat)))
         IN  [cache |-> c,
              result |-> path_from_pattern = filepath_in_repo
                         \/ path_from_pattern \in PathParents(filepath_in_repo),
              raised |-> None]
    ELSE [cache |-> c, result |-> StrContains(PathStr(filepath_in_repo), RStripSlash(pat)),
          raised |-> None]

\* mutant: a covering rule that names no owner is passed over
RECURSIVE GetOwners_SkipOwnerless(_, _, _)
GetOwners_SkipOwnerless(c, rules, filepath_in_repo) ==
    IF Len(rules) = 0 THEN [cache |-> c, owners |-> <<>>, raised |-> None]
    ELSE LET r == IsFileCoveredByPattern(c, filepath_in_repo, rules[1].pattern)
         IN  IF r.raised # None THEN [cache |-> r.cache, owners |-> <<>>, raised |-> r.raised]
             ELSE IF r.result /\ Len(rules[1].owners) > 0
             THEN [cache |-> r.cache, owners |-> rules[1].owners, raised |-> None]
             ELSE GetOwners_SkipOwnerless(r.cache, Tail(rules), filepath_in_repo)

\* GithubOwnerShip.get_owners: scan the (reversed) rules, first covering rule wins
RECURSIVE GetOwners(_, _, _)
GetOwners(c, rules, filepath_in_repo) ==
    IF Len(rules) = 0 THEN [cache |-> c, owners |-> <<>>, raised |-> None]
    ELSE LET r == IsFileCoveredByPattern(c, filepath_in_repo, rules[1].pattern)
         IN  IF r.raised # None THEN [cache |-> r.cache, owners |-> <<>>, raised |-> r.raised]
             ELSE IF r.result
             THEN [cache |-> r.cache, owners |-> rules[1].owners, raised |-> None]
             ELSE GetOwners(r.cache, Tail(rules), filepath_in_repo)

\* mutant: the rules are kept in file order
Reversed_FileOrder(seq) == seq

\* tuple(reversed(...)) of parse_ownership
RECURSIVE Reversed(_)
Reversed(seq) == IF Len(seq) = 0 THEN <<>> ELSE Append(Reversed(Tail(seq)), seq[1])

(***************************************************************************)
(* Input domains.                                                          *)
(***************************************************************************)
PathChars == {"a", "b", SL}
PatChars == {"a", "b", SL, STAR}

\* the string forms of normalised relative paths
PathStrings ==
    {s \in StringsOver(PathChars, 1, MaxPathLen) :
        /\ s[1] # SL
        /\ s[Len(s)] # SL
        /\ \A i \in 1..(Len(s) - 1) : ~(s[i] = SL /\ s[i + 1] = SL)}

\* relative Paths, with Path(".") for the repository root itself
Paths == {PathParts(s) : s \in PathStrings} \cup {<<>>}

\* the paths queried through get_owners
QueryPaths == {f \in Paths : Len(PathStr(f)) <= MaxQueryLen}

\* every token over the pattern alphabet
Patterns == StringsOver(PatChars, 1, MaxPatLen)

NoTree == <<>>

(***************************************************************************)
(* SpecMatch: one call of is_file_covered_by_pattern on a fresh            *)
(* GithubOwnerShip, for every path and pattern of the domains.             *)
(***************************************************************************)
InitMatch ==
    /\ file \in Paths
    /\ pattern \in Patterns
    /\ all_entries = <<>>
    /\ ownerships = <<>>
    /\ cache = <<>>
    /\ covered = "none"
    /\ owners = "none"
    /\ tree = NoTree
    /\ idx = 0
    /\ return_code = {}
    /\ reports = {}
    /\ pc = "query"
    /\ EnvIdle

CallIsFileCoveredByPattern ==
    /\ pc = "query"
    /\ \E r \in {IsFileCoveredByPattern(cache, file, pattern)} :
           /\ covered' = (IF r.raised = None THEN r.result ELSE r.raised)
           /\ cache' = r.cache
           /\ pc' = IF r.raised = None THEN "done" ELSE "raised"
    /\ UNCHANGED <<all_entries, ownerships, file, pattern, owners, tree, idx,
                   return_code, reports>>
    /\ UNCHANGED env

NextMatch == CallIsFileCoveredByPattern

SpecMatch == InitMatch /\ [][NextMatch]_vars

(***************************************************************************)
(* The rule audit of check_ownership.py.  ReturnCode is an IntFlag: a set  *)
(* of flags, combined with |.                                              *)
(***************************************************************************)
SUCCESS == {}
ERROR_DUPLICATE_LINES == "ERROR_DUPLICATE_LINES"
ERROR_MULTIPLE_FOLDER_OWNERS == "ERROR_MULTIPLE_FOLDER_OWNERS"
ERROR_RULE_IS_INEFFECTIVE == "ERROR_RULE_IS_INEFFECTIVE"

\* set(entry.owners)
SetOf(tuple) == {tuple[i] : i \in 1..Len(tuple)}

\* OwnerShipTreeNode(): no owners, no line number; its children are the nodes
\* of the tree whose key extends its own key by one name
OwnerShipTreeNode == [owners |-> {}, line_number |-> None]

\* the tree holding only root_node
RootOnly == (<<>> :> OwnerShipTreeNode)

\* OwnerShipTreeNode.add_or_return_child: the tree with the child node present
AddOrReturnChild(t, node, child_name) ==
    IF Append(node, child_name) \in DOMAIN t THEN t
    ELSE t @@ (Append(node, child_name) :> OwnerShipTreeNode)

\* tree_node.children.items()
Children(t, node) ==
    {k \in DOMAIN t : Len(k) = Len(node) + 1 /\ SubSeq(k, 1, Len(node)) = node}

\* mutant: a repeated pattern is reported as a conflict whatever its owners
RECURSIVE PopulateTree_NoDuplicateCheck(_, _, _, _)
PopulateTree_NoDuplicateCheck(t, entry, path_parts, node) ==
    IF Len(path_parts) > 0
    THEN PopulateTree_NoDuplicateCheck(AddOrReturnChild(t, node, path_parts[1]), entry,
                                       Tail(path_parts), Append(node, path_parts[1]))
    ELSE LET written == [t EXCEPT ![node] = [owners |-> SetOf(entry.owners),
                                             line_number |-> entry.line_number]]
         IN  IF t[node].owners # {}
             THEN [tree |-> written, return_code |-> {ERROR_MULTIPLE_FOLDER_OWNERS},
                   reports |-> {[kind |-> ERROR_MULTIPLE_FOLDER_OWNERS, node |-> node,
                                 line |-> t[node].line_number,
                                 other |-> entry.line_number]}]
             ELSE [tree |-> written, return_code |-> SUCCESS, reports |-> {}]

\* _populate_tree(entry, path_parts, tree_node): the new tree, the return code
\* and the messages printed
RECURSIVE PopulateTree(_, _, _, _)
PopulateTree(t, entry, path_parts, node) ==
    IF Len(path_parts) > 0
    THEN PopulateTree(AddOrReturnChild(t, node, path_parts[1]), entry,
                      Tail(path_parts), Append(node, path_parts[1]))
    ELSE LET previous_owners == t[node].owners
             written == [t EXCEPT ![node] = [owners |-> SetOf(entry.owners),
                                             line_number |-> entry.line_number]]
             msg(kind) == [kind |-> kind, node |-> node,
                           line |-> t[node].line_number, other |-> entry.line_number]
         IN  IF previous_owners # {}
             THEN IF previous_owners = SetOf(entry.owners)
                  THEN [tree |-> written, return_code |-> {ERROR_DUPLICATE_LINES},
                        reports |-> {msg(ERROR_DUPLICATE_LINES)}]
                  ELSE [tree |-> written, return_code |-> {ERROR_MULTIPLE_FOLDER_OWNERS},
                        reports |-> {msg(ERROR_MULTIPLE_FOLDER_OWNERS)}]
             ELSE [tree |-> written, return_code |-> SUCCESS, reports |-> {}]

\* mutant: a rule is redundant only if it is declared after its ancestor
RECURSIVE FindIneffectiveRules_LaterOnly(_, _, _)
FindIneffectiveRules_LaterOnly(t, node, first_ancestor) ==
    IF /\ first_ancestor # None
       /\ t[node].owners = t[first_ancestor].owners
       /\ t[node].line_number > t[first_ancestor].line_number
    THEN [return_code |-> {ERROR_RULE_IS_INEFFECTIVE},
          reports |-> {[kind |-> ERROR_RULE_IS_INEFFECTIVE, node |-> node,
                        line |-> t[node].line_number,
                        other |-> t[first_ancestor].line_number]}]
    ELSE LET next_ancestor == IF Cardinality(t[node].owners) > 0 THEN node
                              ELSE first_ancestor
             below == {FindIneffectiveRules_LaterOnly(t, child, next_ancestor) :
                          child \in Children(t, node)}
         IN  [return_code |-> UNION {r.return_code : r \in below},
              reports |-> UNION {r.reports : r \in below}]

\* _find_ineffective_rules(tree_node, first_ancestor, current_path)
RECURSIVE FindIneffectiveRules(_, _, _)
FindIneffectiveRules(t, node, first_ancestor) ==
    IF first_ancestor # None /\ t[node].owners = t[first_ancestor].owners
    THEN [return_code |-> {ERROR_RULE_IS_INEFFECTIVE},
          reports |-> {[kind |-> ERROR_RULE_IS_INEFFECTIVE, node |-> node,
                        line |-> t[node].line_number,
                        other |-> t[first_ancestor].line_number]}]
    ELSE LET next_ancestor == IF Cardinality(t[node].owners) > 0 THEN node
                              ELSE first_ancestor
             below == {FindIneffectiveRules(t, child, next_ancestor) :
                          child \in Children(t, node)}
         IN  [return_code |-> UNION {r.return_code : r \in below},
              reports |-> UNION {r.reports : r \in below}]

\* check_if_codeowners_has_ineffective_rules, as one function of the entries
RECURSIVE PopulateAll(_, _, _)
PopulateAll(acc, entries, i) ==
    IF i > Len(entries) THEN acc
    ELSE LET r == PopulateTree(acc.tree, entries[i], PathParts(entries[i].pattern), <<>>)
         IN  PopulateAll([tree |-> r.tree,
                          return_code |-> acc.return_code \cup r.return_code,
                          reports |-> acc.reports \cup r.reports], entries, i + 1)

CheckIneffectiveRules(entries) ==
    LET built == PopulateAll([tree |-> RootOnly, return_code |-> SUCCESS, reports |-> {}],
                             entries, 1)
        walk == FindIneffectiveRules(built.tree, <<>>, None)
    IN  [return_code |-> built.return_code \cup walk.return_code,
         reports |-> built.reports \cup walk.reports]

(***************************************************************************)
(* Rule lists.  An entry is an OwnerShipEntry; the parser numbers the      *)
(* lines from 1, and a line holding only a pattern has no owners.          *)
(***************************************************************************)
OwnerTuples == {<<>>, <<"X">>, <<"Y">>}
IndexOwnerTuples == {<<>>, <<"X">>, <<"Y", "X">>}

AuditPatterns ==
    { <<SL, "a">>, <<SL, "a", SL>>, <<SL, "a", SL, "b">>,
      <<SL, "a", SL, "b", SL, "a">>, <<"a">>, <<SL, "a", SL, STAR>> }

IndexPatterns ==
    { <<SL, "a">>, <<SL, "a", SL, "b">>, <<"a">>, <<"b", SL>>, <<STAR>>,
      <<SL, "a", SL, STAR>> }

OwnerShipEntry(pat, own, line) == [pattern |-> pat, owners |-> own, line_number |-> line]

\* the entries of a file of k rules, rule i being the pair f[i] on line i
RuleList(f, k) == [i \in 1..k |-> OwnerShipEntry(f[i][1], f[i][2], i)]

(***************************************************************************)
(* Spec: one run of check_if_codeowners_has_ineffective_rules, entry by    *)
(* entry, then the redundancy walk.                                        *)
(***************************************************************************)
Init ==
    /\ \E k \in 0..MaxRules : \E f \in [1..k -> AuditPatterns \X OwnerTuples] :
           all_entries = RuleList(f, k)
    /\ ownerships = Reversed(all_entries)
    /\ cache = <<>>
    /\ file = <<>>
    /\ pattern = <<>>
    /\ covered = "none"
    /\ owners = "none"
    /\ tree = RootOnly
    /\ idx = 0
    /\ return_code = SUCCESS
    /\ reports = {}
    /\ pc = "populate"
    /\ EnvIdle

\* one iteration of the loop over all_entries
PopulateNext ==
    /\ pc = "populate"
    /\ idx < Len(all_entries)
    /\ LET entry == all_entries[idx + 1]
           r == PopulateTree(tree, entry, PathParts(entry.pattern), <<>>)
       IN  /\ tree' = r.tree
           /\ return_code' = return_code \cup r.return_code
           /\ reports' = reports \cup r.reports
    /\ idx' = idx + 1
    /\ UNCHANGED <<all_entries, ownerships, cache, file, pattern, covered, owners, pc>>
    /\ UNCHANGED env

\* the walk after the loop, and the return
FindIneffective ==
    /\ pc = "populate"
    /\ idx = Len(all_entries)
    /\ LET r == FindIneffectiveRules(tree, <<>>, None)
       IN  /\ return_code' = return_code \cup r.return_code
           /\ reports' = reports \cup r.reports
    /\ pc' = "done"
    /\ UNCHANGED <<all_entries, ownerships, cache, file, pattern, covered, owners, tree, idx>>
    /\ UNCHANGED env

Next == PopulateNext \/ FindIneffective

Spec == Init /\ [][Next]_vars

(***************************************************************************)
(* SpecOwners: one get_owners query on a freshly parsed GithubOwnerShip.   *)
(***************************************************************************)
InitOwners ==
    /\ \E k \in 0..MaxIndexRules : \E f \in [1..k -> IndexPatterns \X IndexOwnerTuples] :
           all_entries = RuleList(f, k)
    /\ ownerships = Reversed(all_entries)
    /\ cache = <<>>
    /\ file \in QueryPaths
    /\ pattern = <<>>
    /\ covered = "none"
    /\ owners = "none"
    /\ tree = NoTree
    /\ idx = 0
    /\ return_code = SUCCESS
    /\ reports = {}
    /\ pc = "query"
    /\ EnvIdle

CallGetOwners ==
    /\ pc = "query"
    /\ \E r \in {GetOwners(cache, ownerships, file)} :
           /\ owners' = (IF r.raised = None THEN r.owners ELSE r.raised)
           /\ cache' = r.cache
           /\ pc' = IF r.raised = None THEN "done" ELSE "raised"
    /\ UNCHANGED <<all_entries, ownerships, file, pattern, covered, tree, idx,
                   return_code, reports>>
    /\ UNCHANGED env

NextOwners == CallGetOwners

SpecOwners == InitOwners /\ [][NextOwners]_vars

(***************************************************************************)
(* SpecParse: get_ownership_entries over the lines of a CODEOWNERS file.   *)
(***************************************************************************)
MaxLines == 3

SPACE == " "
HASH == "#"

IsSpace(c) == c = SPACE

\* str.lstrip() and str.strip()
RECURSIVE LStrip(_)
LStrip(s) == IF Len(s) > 0 /\ IsSpace(s[1]) THEN LStrip(Tail(s)) ELSE s

RECURSIVE Strip(_)
Strip(s) ==
    IF Len(s) > 0 /\ IsSpace(s[Len(s)]) THEN Strip(SubSeq(s, 1, Len(s) - 1))
    ELSE LStrip(s)

\* re.findall(r"(\S+)", s): scan from the left, cur being the token in progress
RECURSIVE FindAllNonSpace(_, _)
FindAllNonSpace(s, cur) ==
    IF Len(s) = 0 THEN (IF cur = <<>> THEN <<>> ELSE <<cur>>)
    ELSE IF IsSpace(s[1])
         THEN (IF cur = <<>> THEN <<>> ELSE <<cur>>) \o FindAllNonSpace(Tail(s), <<>>)
         ELSE FindAllNonSpace(Tail(s), Append(cur, s[1]))

\* mutant: the line is not stripped before the comment test
ParseLineEntry_NoStrip(line, line_number) ==
    IF StartsWith(line, <<HASH>>) THEN <<>>
    ELSE LET match == FindAllNonSpace(line, <<>>)
         IN  IF Len(match) > 0
             THEN <<OwnerShipEntry(match[1], Tail(match), line_number)>>
             ELSE <<>>

\* mutant: lines are numbered from 0
ParseLineEntry_ZeroBased(line, line_number) ==
    LET current_line == Strip(line)
    IN  IF StartsWith(current_line, <<HASH>>) THEN <<>>
        ELSE LET match == FindAllNonSpace(current_line, <<>>)
             IN  IF Len(match) > 0
                 THEN <<OwnerShipEntry(match[1], Tail(match), line_number - 1)>>
                 ELSE <<>>

\* the body of the loop of get_ownership_entries: what one line yields
ParseLineEntry(line, line_number) ==
    LET current_line == Strip(line)
    IN  IF StartsWith(current_line, <<HASH>>) THEN <<>>
        ELSE LET match == FindAllNonSpace(current_line, <<>>)
             IN  IF Len(match) > 0
                 THEN <<OwnerShipEntry(match[1], Tail(match), line_number)>>
                 ELSE <<>>

\* the lines a CODEOWNERS file is made of here
Lines ==
    { <<>>, <<SPACE>>, <<HASH, "a">>, <<SPACE, HASH, "a", SPACE, "b">>,
      <<"a">>, <<SPACE, "a", SPACE>>, <<"a", SPACE, "b">>,
      <<"a", SPACE, SPACE, "b", SPACE, "a", "b">>, <<"a", HASH, "b">>,
      <<"a", SPACE, HASH, "b">> }

InitParse ==
    /\ \E k \in 0..MaxLines : text \in [1..k -> Lines]
    /\ all_entries = <<>>
    /\ ownerships = <<>>
    /\ cache = <<>>
    /\ file = <<>>
    /\ pattern = <<>>
    /\ covered = "none"
    /\ owners = "none"
    /\ tree = NoTree
    /\ idx = 0
    /\ return_code = SUCCESS
    /\ reports = {}
    /\ pc = "parse"
    /\ fs = {}
    /\ repo_dir = <<>>
    /\ resolved = "none"
    /\ changed_files = {}
    /\ tracked_files = {}
    /\ codeowners_owner = None
    /\ method = <<>>
    /\ twin = <<>>

\* one iteration of the loop over file.readlines()
ParseLine ==
    /\ pc = "parse"
    /\ idx < Len(text)
    /\ all_entries' = all_entries \o ParseLineEntry(text[idx + 1], idx + 1)
    /\ idx' = idx + 1
    /\ UNCHANGED <<ownerships, cache, file, pattern, covered, owners, tree,
                   return_code, reports, pc, env>>

\* the generator is exhausted
ParseEnd ==
    /\ pc = "parse"
    /\ idx = Len(text)
    /\ pc' = "done"
    /\ UNCHANGED <<all_entries, ownerships, cache, file, pattern, covered, owners,
                   tree, idx, return_code, reports, env>>

NextParse == ParseLine \/ ParseEnd

SpecParse == InitParse /\ [][NextParse]_vars

(***************************************************************************)
(* The file system under the repository root: the set of the paths that    *)
(* exist, each a sequence of names, closed under parents.  A path with an  *)
(* entry below it is a directory, any other one a file; the root exists.   *)
(***************************************************************************)
ERROR_FOLDER_DOESNT_EXIST == "ERROR_FOLDER_DOESNT_EXIST"

FsExists(f, path) == path = <<>> \/ path \in f

FsIsDir(f, path) ==
    path = <<>> \/ \E q \in f : Len(q) > Len(path) /\ SubSeq(q, 1, Len(path)) = path

\* os.scandir(path): the entries of a directory
FsScanDir(f, path) ==
    {q \in f : Len(q) = Len(path) + 1 /\ SubSeq(q, 1, Len(path)) = path}

\* fnmatch on one name: "*" matches any run of characters, the rest literally
RECURSIVE FnMatch(_, _)
FnMatch(name, pat) ==
    IF Len(pat) = 0 THEN Len(name) = 0
    ELSE IF pat[1] = STAR
         THEN FnMatch(name, Tail(pat)) \/ (Len(name) > 0 /\ FnMatch(Tail(name), pat))
         ELSE Len(name) > 0 /\ name[1] = pat[1] /\ FnMatch(Tail(name), Tail(pat))

RECURSIVE_GLOB == <<STAR, STAR>>

\* pathlib's selectors for the parts of a glob pattern, from parent_path:
\* "**" tries every directory at or below it, a part with a "*" every entry
\* of it with a matching name, a plain part the entry of that name; an
\* entry that has parts left to match must be a directory
RECURSIVE SelectFrom(_, _, _)
SelectFrom(f, pattern_parts, parent_path) ==
    IF Len(pattern_parts) = 0 THEN {parent_path}
    ELSE LET part == pattern_parts[1]
             rest == Tail(pattern_parts)
             dironly == Len(rest) > 0
         IN  IF part = RECURSIVE_GLOB
             THEN UNION {SelectFrom(f, rest, d) :
                            d \in {q \in f \cup {<<>>} :
                                      /\ FsIsDir(f, q)
                                      /\ Len(q) >= Len(parent_path)
                                      /\ SubSeq(q, 1, Len(parent_path)) = parent_path}}
             ELSE IF HasChar(part, STAR)
             THEN UNION {SelectFrom(f, rest, q) :
                            q \in {e \in FsScanDir(f, parent_path) :
                                      /\ FnMatch(e[Len(e)], part)
                                      /\ (dironly => FsIsDir(f, e))}}
             ELSE LET path == Append(parent_path, part)
                  IN  IF (IF dironly THEN FsIsDir(f, path) ELSE FsExists(f, path))
                      THEN SelectFrom(f, rest, path)
                      ELSE {}

\* repo_dir.glob(subfolder)
Glob(f, subfolder) ==
    IF FsIsDir(f, <<>>) THEN SelectFrom(f, PathParts(subfolder), <<>>) ELSE {}

\* is_empty(iterable)
IsEmpty(iterable) == iterable = {}

\* mutant: an unanchored pattern is looked up at the repository root only
CheckFolderExists_RootOnly(f, entry) ==
    LET subfolder == IF StartsWith(entry.pattern, <<SL>>) THEN Tail1(entry.pattern)
                     ELSE entry.pattern
        missing == [return_code |-> {ERROR_FOLDER_DOESNT_EXIST},
                    reports |-> {[kind |-> ERROR_FOLDER_DOESNT_EXIST, node |-> subfolder,
                                  line |-> entry.line_number, other |-> None]}]
        fine == [return_code |-> SUCCESS, reports |-> {}]
    IN  IF HasChar(subfolder, STAR)
        THEN (IF IsEmpty(Glob(f, subfolder)) THEN missing ELSE fine)
        ELSE (IF ~FsExists(f, PathParts(subfolder)) THEN missing ELSE fine)

\* mutant: a wildcard pattern is searched at any depth even when anchored
CheckFolderExists_AnyDepth(f, entry) ==
    LET subfolder == IF StartsWith(entry.pattern, <<SL>>) THEN Tail1(entry.pattern)
                     ELSE PathStr(<<RECURSIVE_GLOB>> \o PathParts(entry.pattern))
        missing == [return_code |-> {ERROR_FOLDER_DOESNT_EXIST},
                    reports |-> {[kind |-> ERROR_FOLDER_DOESNT_EXIST, node |-> subfolder,
                                  line |-> entry.line_number, other |-> None]}]
        fine == [return_code |-> SUCCESS, reports |-> {}]
    IN  IF HasChar(subfolder, STAR)
        THEN (IF IsEmpty(Glob(f, <<STAR, STAR, SL>> \o subfolder)) THEN missing ELSE fine)
        ELSE (IF ~FsExists(f, PathParts(subfolder)) THEN missing ELSE fine)

\* the body of the loop of check_if_all_codeowners_folders_exist: the flag
\* and the message one entry adds
CheckFolderExists(f, entry) ==
    LET subfolder == IF StartsWith(entry.pattern, <<SL>>) THEN Tail1(entry.pattern)
                     ELSE PathStr(<<RECURSIVE_GLOB>> \o PathParts(entry.pattern))
        missing == [return_code |-> {ERROR_FOLDER_DOESNT_EXIST},
                    reports |-> {[kind |-> ERROR_FOLDER_DOESNT_EXIST, node |-> subfolder,
                                  line |-> entry.line_number, other |-> None]}]
        fine == [return_code |-> SUCCESS, reports |-> {}]
    IN  IF HasChar(subfolder, STAR)
        THEN (IF IsEmpty(Glob(f, subfolder)) THEN missing ELSE fine)
        ELSE (IF ~FsExists(f, PathParts(subfolder)) THEN missing ELSE fine)

\* check_if_all_codeowners_folders_exist(repo_dir, entries), from entry i on
RECURSIVE CheckAllFoldersExist(_, _, _)
CheckAllFoldersExist(f, entries, i) ==
    IF i > Len(entries) THEN [return_code |-> SUCCESS, reports |-> {}]
    ELSE LET one == CheckFolderExists(f, entries[i])
             more == CheckAllFoldersExist(f, entries, i + 1)
         IN  [return_code |-> one.return_code \cup more.return_code,
              reports |-> one.reports \cup more.reports]

(***************************************************************************)
(* SpecExist: check_if_all_codeowners_folders_exist on a small repository. *)
(***************************************************************************)
MaxDepth == 2
MaxExistRules == 1

Names == {<<"a">>, <<"b">>}

FsPaths == UNION {[1..k -> Names] : k \in 1..MaxDepth}

\* the file systems: the sets of paths closed under parents
FileSystems ==
    {f \in SUBSET FsPaths :
        \A q \in f : Len(q) > 1 => SubSeq(q, 1, Len(q) - 1) \in f}

\* patterns without and with "*", with and without a leading "/"
ExistPatterns ==
    { <<SL, "a">>, <<SL, "a", SL, "b">>, <<SL, "b", SL>>, <<"a">>, <<"b">>,
      <<"a", SL, "b">>, <<"b", SL>>,
      <<SL, "a", STAR>>, <<SL, STAR, SL, "b">>, <<SL, "a", SL, STAR>>,
      <<"b", STAR>>, <<STAR, SL, "a">>, <<"a", SL, STAR>> }

InitExist ==
    /\ fs \in FileSystems
    /\ \E k \in 0..MaxExistRules : \E f \in [1..k -> ExistPatterns \X {<<"X">>}] :
           all_entries = RuleList(f, k)
    /\ ownerships = <<>>
    /\ cache = <<>>
    /\ file = <<>>
    /\ pattern = <<>>
    /\ covered = "none"
    /\ owners = "none"
    /\ tree = NoTree
    /\ idx = 0
    /\ return_code = SUCCESS
    /\ reports = {}
    /\ pc = "exist"
    /\ text = <<>>
    /\ repo_dir = <<>>
    /\ resolved = "none"
    /\ changed_files = {}
    /\ tracked_files = {}
    /\ codeowners_owner = None
    /\ method = <<>>
    /\ twin = <<>>

\* one iteration of the loop over entries
ExistNext ==
    /\ pc = "exist"
    /\ idx < Len(all_entries)
    /\ LET r == CheckFolderExists(fs, all_entries[idx + 1])
       IN  /\ return_code' = return_code \cup r.return_code
           /\ reports' = reports \cup r.reports
    /\ idx' = idx + 1
    /\ UNCHANGED <<all_entries, ownerships, cache, file, pattern, covered, owners,
                   tree, pc, env>>

\* the return after the loop
ExistReturn ==
    /\ pc = "exist"
    /\ idx = Len(all_entries)
    /\ pc' = "done"
    /\ UNCHANGED <<all_entries, ownerships, cache, file, pattern, covered, owners,
                   tree, idx, return_code, reports, env>>

NextExist == ExistNext \/ ExistReturn

SpecExist == InitExist /\ [][NextExist]_vars

(***************************************************************************)
(* SpecAll: perform_all_codeowners_checks on a repository whose CODEOWNERS *)
(* file holds the lines of text.                                           *)
(***************************************************************************)
MaxAllRules == 3

\* list(get_ownership_entries(codeowners)), from line i on
RECURSIVE GetOwnershipEntries(_, _)
GetOwnershipEntries(lines, i) ==
    IF i > Len(lines) THEN <<>>
    ELSE ParseLineEntry(lines[i], i) \o GetOwnershipEntries(lines, i + 1)

\* mutant: the second check's result replaces the first one's
OrInto_Overwrite(return_code_so_far, found) == found

\* return_code |= found
OrInto(return_code_so_far, found) == return_code_so_far \cup found

AllPatterns == { <<SL, "a">>, <<SL, "a", SL, "b">>, <<"b">> }

AllOwners == { <<"X">>, <<"Y">> }

\* the file systems over a, a/b and b
AllFileSystems ==
    { {}, {<<<<"a">>>>}, {<<<<"b">>>>}, {<<<<"a">>>>, <<<<"b">>>>},
      {<<<<"a">>>>, <<<<"a">>, <<"b">>>>},
      {<<<<"a">>>>, <<<<"a">>, <<"b">>>>, <<<<"b">>>>} }

InitAll ==
    /\ fs \in AllFileSystems
    /\ \E k \in 0..MaxAllRules : \E f \in [1..k -> AllPatterns \X AllOwners] :
           text = [i \in 1..k |-> f[i][1] \o <<SPACE>> \o f[i][2]]
    /\ all_entries = <<>>
    /\ ownerships = <<>>
    /\ cache = <<>>
    /\ file = <<>>
    /\ pattern = <<>>
    /\ covered = "none"
    /\ owners = "none"
    /\ tree = NoTree
    /\ idx = 0
    /\ return_code = SUCCESS
    /\ reports = {}
    /\ pc = "all_parse"
    /\ repo_dir = <<>>
    /\ resolved = "none"
    /\ changed_files = {}
    /\ tracked_files = {}
    /\ codeowners_owner = None
    /\ method = <<>>
    /\ twin = <<>>

\* all_entries = list(get_ownership_entries(codeowners))
AllParse ==
    /\ pc = "all_parse"
    /\ all_entries' = GetOwnershipEntries(text, 1)
    /\ pc' = "all_exist"
    /\ UNCHANGED <<ownerships, cache, file, pattern, covered, owners, tree, idx,
                   return_code, reports, env>>

\* return_code |= check_if_all_codeowners_folders_exist(repo_dir, all_entries)
AllExist ==
    /\ pc = "all_exist"
    /\ LET r == CheckAllFoldersExist(fs, all_entries, 1)
       IN  /\ return_code' = OrInto(return_code, r.return_code)
           /\ reports' = reports \cup r.reports
    /\ pc' = "all_audit"
    /\ UNCHANGED <<all_entries, ownerships, cache, file, pattern, covered, owners,
                   tree, idx, env>>

\* return_code |= check_if_codeowners_has_ineffective_rules(all_entries)
AllAudit ==
    /\ pc = "all_audit"
    /\ LET r == CheckIneffectiveRules(all_entries)
       IN  /\ return_code' = OrInto(return_code, r.return_code)
           /\ reports' = reports \cup r.reports
    /\ pc' = "all_return"
    /\ UNCHANGED <<all_entries, ownerships, cache, file, pattern, covered, owners,
                   tree, idx, env>>

\* return return_code
AllReturn ==
    /\ pc = "all_return"
    /\ pc' = "done"
    /\ UNCHANGED <<all_entries, ownerships, cache, file, pattern, covered, owners,
                   tree, idx, return_code, reports, env>>

NextAll == AllParse \/ AllExist \/ AllAudit \/ AllReturn

SpecAll == InitAll /\ [][NextAll]_vars

(***************************************************************************)
(* SpecResolve: resolve_file_in_dir(dir, file).  A path is the sequence of *)
(* its parts, an absolute one starting with the root part; there are no    *)
(* symbolic links, so Path.resolve() only makes the path absolute and      *)
(* folds its ".." parts.                                                   *)
(***************************************************************************)
MaxFileParts == 3

ROOT == <<SL>>
DOTDOT == <<".", ".">>

\* Path.cwd()
Cwd == <<ROOT, <<"w">>>>

\* Path.is_absolute()
IsAbsolute(path) == Len(path) > 0 /\ path[1] = ROOT

\* dir / file
JoinPath(base, path) == IF IsAbsolute(path) THEN path ELSE base \o path

\* the ".." parts folded into acc, which starts with the root part
RECURSIVE FoldDotDot(_, _)
FoldDotDot(parts, acc) ==
    IF Len(parts) = 0 THEN acc
    ELSE IF parts[1] = DOTDOT
         THEN FoldDotDot(Tail(parts),
                         IF Len(acc) > 1 THEN SubSeq(acc, 1, Len(acc) - 1) ELSE acc)
         ELSE FoldDotDot(Tail(parts), Append(acc, parts[1]))

\* Path.resolve()
Resolve(path) == FoldDotDot(Tail(JoinPath(Cwd, path)), <<ROOT>>)

\* is_relative_to(subpath, root)
IsRelativeTo(subpath, root) ==
    Len(root) <= Len(subpath) /\ SubSeq(subpath, 1, Len(root)) = root

NotInDirectoryError == "NotInDirectoryError"

\* resolve_file_in_dir(dir, file): the path returned, or the error raised
ResolveFileInDir(dir, f) ==
    IF IsAbsolute(f)
    THEN IF ~IsRelativeTo(Resolve(f), Resolve(dir)) THEN NotInDirectoryError
         ELSE Resolve(f)
    ELSE Resolve(JoinPath(dir, f))

PartNames == {<<"a">>, <<"r">>, DOTDOT}

RelativePaths == UNION {[1..k -> PartNames] : k \in 0..MaxFileParts}

Dirs == { <<ROOT, <<"r">>>>, <<ROOT, <<"r">>, <<"a">>>>, <<<<"r">>>> }

InitResolve ==
    /\ repo_dir \in Dirs
    /\ \E rel \in RelativePaths : file \in {rel, <<ROOT>> \o rel}
    /\ resolved = "none"
    /\ all_entries = <<>>
    /\ ownerships = <<>>
    /\ cache = <<>>
    /\ pattern = <<>>
    /\ covered = "none"
    /\ owners = "none"
    /\ tree = NoTree
    /\ idx = 0
    /\ return_code = SUCCESS
    /\ reports = {}
    /\ pc = "resolve"
    /\ fs = {}
    /\ text = <<>>
    /\ changed_files = {}
    /\ tracked_files = {}
    /\ codeowners_owner = None
    /\ method = <<>>
    /\ twin = <<>>

CallResolveFileInDir ==
    /\ pc = "resolve"
    /\ resolved' = ResolveFileInDir(repo_dir, file)
    /\ pc' = IF ResolveFileInDir(repo_dir, file) = NotInDirectoryError THEN "raised"
             ELSE "done"
    /\ UNCHANGED <<all_entries, ownerships, cache, file, pattern, covered, owners,
                   tree, idx, return_code, reports, fs, text, repo_dir,
                   changed_files, tracked_files, codeowners_owner, method, twin>>

NextResolve == CallResolveFileInDir

SpecResolve == InitResolve /\ [][NextResolve]_vars

(***************************************************************************)
(* SpecQuery: the queries of a GithubOwnerShip built for a repository,     *)
(* made with a path in either form.                                        *)
(***************************************************************************)
ValueError == "ValueError"

\* mutant: the path is matched as given
RelativeTo_AsGiven(path, base) == path

\* PurePath.relative_to(base), for a path under base
RelativeTo(path, base) == SubSeq(path, Len(base) + 1, Len(path))

\* GithubOwnerShip.get_owners(file): each iteration of the loop takes
\* file.relative_to(self._repo_dir), which raises for a path not under it
QueryGetOwners(c, rules, repo, f) ==
    IF Len(rules) = 0 THEN [cache |-> c, owners |-> <<>>, raised |-> None]
    ELSE IF ~IsRelativeTo(f, repo)
         THEN [cache |-> c, owners |-> <<>>, raised |-> ValueError]
         ELSE GetOwners(c, rules, RelativeTo(f, repo))

\* GithubOwnerShip.get_first_owner(file)
QueryGetFirstOwner(c, rules, repo, f) ==
    LET r == QueryGetOwners(c, rules, repo, f)
    IN  [cache |-> r.cache,
         owners |-> IF Len(r.owners) > 0 THEN r.owners[1] ELSE None,
         raised |-> r.raised]

\* GithubOwnerShip.is_owned_by(file, codeowner)
QueryIsOwnedBy(c, rules, repo, f, codeowner) ==
    LET r == QueryGetOwners(c, rules, repo, f)
    IN  [cache |-> r.cache,
         owners |-> \E k \in 1..Len(r.owners) : r.owners[k] = codeowner,
         raised |-> r.raised]

RepoRoot == <<ROOT, <<"r">>>>

QueryPatterns == { <<SL, "a">>, <<"b">>, <<SL, "a", SL, STAR>> }

QueryOwnerTuples == { <<>>, <<"X">>, <<"Y", "X">> }

InitQuery ==
    /\ \E k \in 0..MaxIndexRules : \E f \in [1..k -> QueryPatterns \X QueryOwnerTuples] :
           all_entries = RuleList(f, k)
    /\ ownerships = Reversed(all_entries)
    /\ repo_dir = RepoRoot
    /\ \E rel \in QueryPaths : file \in {rel, RepoRoot \o rel}
    /\ cache = <<>>
    /\ pattern = <<>>
    /\ covered = "none"
    /\ owners = "none"
    /\ tree = NoTree
    /\ idx = 0
    /\ return_code = SUCCESS
    /\ reports = {}
    /\ pc = "query"
    /\ fs = {}
    /\ text = <<>>
    /\ resolved = "none"
    /\ changed_files = {}
    /\ tracked_files = {}
    /\ codeowners_owner = None
    /\ method = <<>>
    /\ twin = <<>>

\* the outcome r of a query: its result, or the error it raised
Answer(r, call) ==
    /\ owners' = (IF r.raised = None THEN r.owners ELSE r.raised)
    /\ cache' = r.cache
    /\ method' = call
    /\ pc' = IF r.raised = None THEN "done" ELSE "raised"
    /\ UNCHANGED <<all_entries, ownerships, file, pattern, covered, tree, idx,
                   return_code, reports, fs, text, repo_dir, resolved,
                   changed_files, tracked_files, codeowners_owner, twin>>

CallQueryGetOwners ==
    /\ pc = "query"
    /\ Answer(QueryGetOwners(cache, ownerships, Resolve(repo_dir), file),
              <<"get_owners">>)

CallQueryGetFirstOwner ==
    /\ pc = "query"
    /\ Answer(QueryGetFirstOwner(cache, ownerships, Resolve(repo_dir), file),
              <<"get_first_owner">>)

CallQueryIsOwnedBy ==
    /\ pc = "query"
    /\ \E codeowner \in {"X", "Y"} :
           Answer(QueryIsOwnedBy(cache, ownerships, Resolve(repo_dir), file, codeowner),
                  <<"is_owned_by", codeowner>>)

NextQuery == CallQueryGetOwners \/ CallQueryGetFirstOwner \/ CallQueryIsOwnedBy

SpecQuery == InitQuery /\ [][NextQuery]_vars

(***************************************************************************)
(* SpecRegex: is_file_covered_by_pattern and get_owners on pattern tokens  *)
(* that hold a character the regex syntax gives a meaning to.  Of these    *)
(* only "[" is in the alphabet, and no "]": a character set never closes.  *)
(***************************************************************************)
MaxTokenLen == 3

TokenChars == {"a", SL, STAR, "["}

Tokens == StringsOver(TokenChars, 1, MaxTokenLen)

InitRegex ==
    /\ pattern \in Tokens
    /\ file \in QueryPaths
    /\ all_entries = <<OwnerShipEntry(pattern, <<"X">>, 1)>>
    /\ ownerships = Reversed(all_entries)
    /\ cache = <<>>
    /\ covered = "none"
    /\ owners = "none"
    /\ tree = NoTree
    /\ idx = 0
    /\ return_code = SUCCESS
    /\ reports = {}
    /\ pc = "query"
    /\ EnvIdle

NextRegex == CallIsFileCoveredByPattern \/ CallGetOwners

SpecRegex == InitRegex /\ [][NextRegex]_vars

(***************************************************************************)
(* SpecTeam: check_for_files_without_team_ownership.  changed_files are    *)
(* absolute paths, tracked_files the repository-relative paths that        *)
(* git ls-files prints; all_entries are the rules of the CODEOWNERS file.  *)
(***************************************************************************)
MaxTeamRules == 2

ERROR_FILE_WITHOUT_TEAM_OWNERSHIP == "ERROR_FILE_WITHOUT_TEAM_OWNERSHIP"

GITHUB == <<".", "g", "i", "t", "h", "u", "b">>
CODEOWNERS == <<"C", "O", "D", "E", "O", "W", "N", "E", "R", "S">>

\* get_codeowners_path(repo_dir)
GetCodeownersPath(repo) == repo \o <<GITHUB, CODEOWNERS>>

\* get_git_tracked_files(folder)
GetGitTrackedFiles(folder, listed) == {JoinPath(folder, f) : f \in listed}

\* mutant: only the changed files are examined
FilesToCheck_ChangedOnly(repo, changed, listed) == {Resolve(f) : f \in changed}

\* files_to_check: every tracked file when CODEOWNERS is among the changed
\* files, the changed files otherwise
FilesToCheck(repo, changed, listed) ==
    IF GetCodeownersPath(repo) \in {Resolve(f) : f \in changed}
    THEN GetGitTrackedFiles(repo, listed)
    ELSE {Resolve(f) : f \in changed}

\* mutant: the CODEOWNERS file is examined like any other file
FilesOwnedByCodeownersOwner_All(rules, repo, files, owner) ==
    {f \in files : QueryIsOwnedBy(<<>>, rules, Resolve(repo), f, owner).owners}

\* files_owned_by_codeowners_file_owners
FilesOwnedByCodeownersOwner(rules, repo, files, owner) ==
    {f \in files : /\ f # GetCodeownersPath(repo)
                   /\ QueryIsOwnedBy(<<>>, rules, Resolve(repo), f, owner).owners}

\* a query made for one of the files raises
TeamCheckRaises(rules, repo, files, owner) ==
    \E f \in files : /\ f # GetCodeownersPath(repo)
                     /\ QueryIsOwnedBy(<<>>, rules, Resolve(repo), f, owner).raised # None

TeamPatterns ==
    { <<STAR>>, <<SL, "a">>, <<SL>> \o GITHUB \o <<SL>> \o CODEOWNERS }

TeamOwnerTuples == { <<"O">>, <<"T">> }

\* what git ls-files may list: the CODEOWNERS file and two other files
ListedFiles == { <<GITHUB, CODEOWNERS>>, <<<<"a">>>>, <<<<"b">>>> }

InitTeam ==
    /\ \E k \in 0..MaxTeamRules : \E f \in [1..k -> TeamPatterns \X TeamOwnerTuples] :
           all_entries = RuleList(f, k)
    /\ ownerships = Reversed(all_entries)
    /\ repo_dir = RepoRoot
    /\ tracked_files \in SUBSET ListedFiles
    /\ changed_files \in SUBSET {JoinPath(RepoRoot, f) : f \in ListedFiles}
    /\ codeowners_owner \in {None, "O"}
    /\ cache = <<>>
    /\ file = <<>>
    /\ pattern = <<>>
    /\ covered = "none"
    /\ owners = "none"
    /\ tree = NoTree
    /\ idx = 0
    /\ return_code = SUCCESS
    /\ reports = {}
    /\ pc = "team"
    /\ fs = {}
    /\ text = <<>>
    /\ resolved = "none"
    /\ method = <<>>
    /\ twin = <<>>

\* codeowners_owner is None: the check is skipped
TeamSkip ==
    /\ pc = "team"
    /\ codeowners_owner = None
    /\ return_code' = SUCCESS
    /\ pc' = "done"
    /\ UNCHANGED <<all_entries, ownerships, cache, file, pattern, covered, owners,
                   tree, idx, reports, env>>

\* the check proper: the files examined are printed, then one line for each
\* file the codeowners_owner owns
TeamCheck ==
    /\ pc = "team"
    /\ codeowners_owner # None
    /\ LET files_to_check == FilesToCheck(repo_dir, changed_files, tracked_files)
           owned == FilesOwnedByCodeownersOwner(ownerships, repo_dir, files_to_check,
                                                codeowners_owner)
       IN  IF TeamCheckRaises(ownerships, repo_dir, files_to_check, codeowners_owner)
           THEN /\ pc' = "raised"
                /\ UNCHANGED <<return_code, reports>>
           ELSE /\ pc' = "done"
                /\ return_code' = IF owned = {} THEN SUCCESS
                                  ELSE {ERROR_FILE_WITHOUT_TEAM_OWNERSHIP}
                /\ reports' = {[kind |-> "files to check", node |-> f,
                                line |-> None, other |-> None] : f \in files_to_check}
                              \cup {[kind |-> ERROR_FILE_WITHOUT_TEAM_OWNERSHIP, node |-> f,
                                     line |-> None, other |-> None] : f \in owned}
    /\ UNCHANGED <<all_entries, ownerships, cache, file, pattern, covered, owners,
                   tree, idx, env>>

NextTeam == TeamSkip \/ TeamCheck

SpecTeam == InitTeam /\ [][NextTeam]_vars

(***************************************************************************)
(* SpecCross: the audit of rule lists that mix patterns starting with "/"  *)
(* and patterns that do not (the catch-all "*", a bare name, and ".").     *)
(***************************************************************************)
MaxCrossRules == 3

CrossPatterns ==
    { <<STAR>>, <<"a">>, <<".">>, <<SL, "a">>, <<SL, "a", SL, "b">> }

InitCross ==
    /\ \E k \in 0..MaxCrossRules : \E f \in [1..k -> CrossPatterns \X OwnerTuples] :
           all_entries = RuleList(f, k)
    /\ ownerships = Reversed(all_entries)
    /\ cache = <<>>
    /\ file = <<>>
    /\ pattern = <<>>
    /\ covered = "none"
    /\ owners = "none"
    /\ tree = RootOnly
    /\ idx = 0
    /\ return_code = SUCCESS
    /\ reports = {}
    /\ pc = "populate"
    /\ EnvIdle

NextCross == PopulateNext \/ FindIneffective

SpecCross == InitCross /\ [][NextCross]_vars

(***************************************************************************)
(* SpecDot: is_file_covered_by_pattern for patterns that may hold a "."    *)
(* (as in "/test_*.c"), on the repository root, on file names with and     *)
(* without a ".", and on paths below them.                                 *)
(***************************************************************************)
MaxDotLen == 3

DOT == "."

DotPatterns == StringsOver({"a", DOT, STAR, SL}, 1, MaxDotLen)

\* Path("."), names with and without a dot, and paths one and two levels down
DotFiles ==
    {PathParts(s) : s \in { <<DOT>>, <<"a">>, <<"x">>, <<"a", "a">>, <<"a", DOT, "x">>,
                            <<"a", DOT, "a">>, <<DOT, "a">>, <<"a", SL, "x">>,
                            <<"a", SL, "a">>, <<"x", SL, "a">>,
                            <<"a", SL, "a", DOT, "x">>, <<"a", SL, "x", SL, "a">> }}

InitDot ==
    /\ pattern \in DotPatterns
    /\ file \in DotFiles
    /\ all_entries = <<>>
    /\ ownerships = <<>>
    /\ cache = <<>>
    /\ covered = "none"
    /\ owners = "none"
    /\ tree = NoTree
    /\ idx = 0
    /\ return_code = SUCCESS
    /\ reports = {}
    /\ pc = "query"
    /\ EnvIdle

NextDot == CallIsFileCoveredByPattern

SpecDot == InitDot /\ [][NextDot]_vars

(***************************************************************************)
(* SpecCache: a CachedRegex object receiving match(needle, haystack,       *)
(* flags) calls.  pattern, file and method hold the arguments of the last  *)
(* call, covered its result, idx the number of calls made.                 *)
(***************************************************************************)
MaxCalls == 3

Needles == { <<"a">>, <<"A">>, <<"(", ".", "*", ")", "a">>, <<"[">> }

Haystacks == { <<"a">>, <<"A">>, <<"b", "A">> }

FlagValues == {DefaultFlags, IGNORECASE}

InitCache ==
    /\ cache = <<>>
    /\ idx = 0
    /\ pattern = <<>>
    /\ file = <<>>
    /\ covered = "none"
    /\ all_entries = <<>>
    /\ ownerships = <<>>
    /\ owners = "none"
    /\ tree = NoTree
    /\ return_code = SUCCESS
    /\ reports = {}
    /\ pc = "idle"
    /\ fs = {}
    /\ text = <<>>
    /\ repo_dir = <<>>
    /\ resolved = "none"
    /\ changed_files = {}
    /\ tracked_files = {}
    /\ codeowners_owner = None
    /\ method = <<>>
    /\ twin = <<>>

\* one call of CachedRegex.match
CallCachedRegexMatch ==
    /\ idx < MaxCalls
    /\ \E needle \in Needles, haystack \in Haystacks, flags \in FlagValues :
         \E r \in {CachedRegexMatch(cache, needle, haystack, flags)} :
           /\ cache' = r.cache
           /\ covered' = r.match
           /\ pattern' = needle
           /\ file' = haystack
           /\ method' = <<"match", flags>>
           /\ pc' = IF r.raised = None THEN "done" ELSE "raised"
    /\ idx' = idx + 1
    /\ UNCHANGED <<all_entries, ownerships, owners, tree, return_code, reports, fs, text,
                   repo_dir, resolved, changed_files, tracked_files, codeowners_owner,
                   twin>>

NextCache == CallCachedRegexMatch

SpecCache == InitCache /\ [][NextCache]_vars

(***************************************************************************)
(* SpecIndex: two GithubOwnerShip objects built from the same CODEOWNERS   *)
(* text and queried in any order, any number of times.  The first object   *)
(* is held in ownerships, repo_dir and cache, the second in twin; a method *)
(* takes the object and returns it as the call leaves it, beside the       *)
(* result.                                                                 *)
(***************************************************************************)
MaxTwinRules == 2

\* parse_ownership(codeowners_file)
ParseOwnership(lines) == Reversed(GetOwnershipEntries(lines, 1))

\* GithubOwnerShip(repo_dir) for a CODEOWNERS file of the given lines
GithubOwnerShip(repo, lines) ==
    [_ownerships |-> ParseOwnership(lines), _repo_dir |-> Resolve(repo), _cached_regex |-> <<>>]

\* mutant: a query drops the rule it looked at first
SelfAfter_ConsumesRule(self, c) ==
    [_ownerships |-> IF Len(self._ownerships) > 0 THEN Tail(self._ownerships) ELSE <<>>,
     _repo_dir |-> self._repo_dir, _cached_regex |-> c]

\* the object after a method has run: no method assigns an attribute, and
\* the calls of self._cached_regex.match leave the cache c
SelfAfter(self, c) == [self EXCEPT !._cached_regex = c]

\* one method call on an object: the object afterwards, the result, the error
MethodCall(self, m, f) ==
    LET r == IF m[1] = "get_owners"
             THEN QueryGetOwners(self._cached_regex, self._ownerships, self._repo_dir, f)
             ELSE IF m[1] = "get_first_owner"
             THEN QueryGetFirstOwner(self._cached_regex, self._ownerships, self._repo_dir, f)
             ELSE IF m[1] = "is_owned_by"
             THEN QueryIsOwnedBy(self._cached_regex, self._ownerships, self._repo_dir, f, m[2])
             ELSE LET q == IsFileCoveredByPattern(self._cached_regex,
                                                  RelativeTo(f, self._repo_dir), m[2])
                  IN  [cache |-> q.cache, owners |-> q.result, raised |-> q.raised]
    IN  [self |-> SelfAfter(self, r.cache), result |-> r.owners, raised |-> r.raised]

TwinPatterns == { <<SL, "a">>, <<SL, "a", SL, STAR>>, <<STAR, "b">> }

\* the owners written on a line: one, two
TwinOwnerTexts == { <<SPACE, "X">>, <<SPACE, "Y", SPACE, "X">> }

\* the queries made: the three lookups and is_file_covered_by_pattern
Methods ==
    { <<"get_owners">>, <<"get_first_owner">>, <<"is_owned_by", <<"X">>>>,
      <<"is_owned_by", <<"Y">>>> }
    \cup {<<"is_file_covered_by_pattern", p>> : p \in TwinPatterns}

\* the files asked about, as absolute paths under the repository
TwinFiles == {RepoRoot \o rel : rel \in {<<<<"b">>>>, <<<<"a">>, <<"b">>>>}}

InitIndex ==
    /\ \E k \in 0..MaxTwinRules : \E f \in [1..k -> TwinPatterns \X TwinOwnerTexts] :
           text = [i \in 1..k |-> f[i][1] \o f[i][2]]
    /\ all_entries = GetOwnershipEntries(text, 1)
    /\ ownerships = GithubOwnerShip(RepoRoot, text)._ownerships
    /\ repo_dir = GithubOwnerShip(RepoRoot, text)._repo_dir
    /\ cache = GithubOwnerShip(RepoRoot, text)._cached_regex
    /\ twin = GithubOwnerShip(RepoRoot, text)
    /\ file = <<>>
    /\ pattern = <<>>
    /\ covered = "none"
    /\ owners = "none"
    /\ tree = NoTree
    /\ idx = 0
    /\ return_code = SUCCESS
    /\ reports = {}
    /\ pc = "query"
    /\ fs = {}
    /\ resolved = "none"
    /\ changed_files = {}
    /\ tracked_files = {}
    /\ codeowners_owner = None
    /\ method = <<>>

\* the first object, as the three variables hold it
Self == [_ownerships |-> ownerships, _repo_dir |-> repo_dir, _cached_regex |-> cache]

\* a query of the first object; what it returns is not kept
QueryFirst ==
    /\ \E m \in Methods, f \in TwinFiles :
         \E r \in {MethodCall(Self, m, f)} :
           /\ ownerships' = r.self._ownerships
           /\ repo_dir' = r.self._repo_dir
           /\ cache' = r.self._cached_regex
           /\ pc' = IF r.raised = None THEN "done" ELSE "raised"
    /\ UNCHANGED <<all_entries, file, pattern, covered, owners, tree, idx, return_code,
                   reports, fs, text, resolved, changed_files, tracked_files,
                   codeowners_owner, method, twin>>

\* a query of the second object
QueryTwin ==
    /\ \E m \in Methods, f \in TwinFiles :
         \E r \in {MethodCall(twin, m, f)} :
           /\ twin' = r.self
           /\ pc' = IF r.raised = None THEN "done" ELSE "raised"
    /\ UNCHANGED <<all_entries, ownerships, cache, file, pattern, covered, owners, tree,
                   idx, return_code, reports, fs, text, repo_dir, resolved, changed_files,
                   tracked_files, codeowners_owner, method>>

NextIndex == QueryFirst \/ QueryTwin

SpecIndex == InitIndex /\ [][NextIndex]_vars

(***************************************************************************)
(* Properties.  The reference notions below are written from the claims,   *)
(* not from the code: segments are the maximal slash-free runs of a        *)
(* string, and a glob is a pattern whose "*" stands for any run of         *)
(* characters and whose other characters stand for themselves.             *)
(***************************************************************************)
Done == pc = "done"

\* the maximal slash-free runs of s, as index pairs
Runs(s) ==
    {r \in (1..Len(s)) \X (1..Len(s)) :
        /\ r[1] <= r[2]
        /\ \A k \in r[1]..r[2] : s[k] # SL
        /\ (r[1] = 1 \/ s[r[1] - 1] = SL)
        /\ (r[2] = Len(s) \/ s[r[2] + 1] = SL)}

\* the segment sequence of a string that names a relative location ("." names
\* the root, which has no segment)
SegmentsOf(s) ==
    IF s = <<".">> THEN <<>>
    ELSE [k \in 1..Cardinality(Runs(s)) |->
            LET r == CHOOSE r \in Runs(s) : Cardinality({q \in Runs(s) : q[1] < r[1]}) = k - 1
            IN  SubSeq(s, r[1], r[2])]

IsSegPrefix(p, q) == Len(p) <= Len(q) /\ \A i \in 1..Len(p) : p[i] = q[i]

\* s without its trailing slashes
WithoutTrailingSlashes(s) ==
    LET keep == {k \in 0..Len(s) : \A i \in (k + 1)..Len(s) : s[i] = SL}
    IN  SubSeq(s, 1, CHOOSE k \in keep : \A l \in keep : k <= l)

OccursIn(needle, s) ==
    \E i \in 1..(Len(s) + 1) :
        i + Len(needle) - 1 <= Len(s) /\ SubSeq(s, i, i + Len(needle) - 1) = needle

\* glob g matches the whole of s
RECURSIVE GlobFull(_, _)
GlobFull(g, s) ==
    IF Len(g) = 0 THEN Len(s) = 0
    ELSE IF g[1] = STAR
         THEN \E k \in 0..Len(s) : GlobFull(Tail(g), SubSeq(s, k + 1, Len(s)))
         ELSE Len(s) > 0 /\ s[1] = g[1] /\ GlobFull(Tail(g), Tail(s))

\* glob g matches s from its first character on, up to any length
GlobAtStart(g, s) == \E n \in 0..Len(s) : GlobFull(g, SubSeq(s, 1, n))

\* glob g matches the end of s, from any position on
GlobAtEnd(g, s) == \E k \in 0..Len(s) : GlobFull(g, SubSeq(s, k + 1, Len(s)))

----------------------------------------------------------------------------
\* C1: last-match-wins: get_owners(path) returns the owner sequence of the
\* last rule in file order whose pattern covers the path, and the empty
\* sequence when no rule covers it.
CoveringRules(entries, f) ==
    {i \in 1..Len(entries) : IsFileCoveredByPattern(<<>>, f, entries[i].pattern).result}

C1_LastMatchWins ==
    Done =>
        LET cov == CoveringRules(all_entries, file)
        IN  IF cov = {} THEN owners = <<>>
            ELSE \E i \in cov : /\ \A j \in cov : all_entries[j].line_number <= all_entries[i].line_number
                                /\ owners = all_entries[i].owners

\* two rules cover the path, with different owners, and the later one is returned
C1_Witness ==
    /\ Done
    /\ Len(all_entries) = 2
    /\ CoveringRules(all_entries, file) = {1, 2}
    /\ all_entries[1].owners # all_entries[2].owners
    /\ owners = all_entries[2].owners

----------------------------------------------------------------------------
\* C2: for a pattern without "*" that starts with "/", the path is covered iff
\* the segment sequence of the pattern (stripped of its first "/" and of its
\* trailing slashes) equals the path's segment sequence or is a proper
\* segment-wise prefix of it.  A pattern that still starts with "/" after the
\* first one is stripped names an absolute location, whose root is a segment
\* no repository-relative path has.
AnchoredLiteral(pat) == ~HasChar(pat, STAR) /\ StartsWith(pat, <<SL>>)

AnchoredBody(pat) == WithoutTrailingSlashes(SubSeq(pat, 2, Len(pat)))

C2_AnchoredSegmentPrefix ==
    (Done /\ AnchoredLiteral(pattern)) =>
        (covered <=> /\ ~StartsWith(AnchoredBody(pattern), <<SL>>)
                     /\ IsSegPrefix(SegmentsOf(AnchoredBody(pattern)), SegmentsOf(PathStr(file))))

\* the pattern is a string prefix of the path but no segment prefix: not covered
C2_Witness ==
    /\ Done
    /\ AnchoredLiteral(pattern)
    /\ Len(AnchoredBody(pattern)) > 0
    /\ StartsWith(PathStr(file), AnchoredBody(pattern))
    /\ ~IsSegPrefix(SegmentsOf(AnchoredBody(pattern)), SegmentsOf(PathStr(file)))
    /\ covered = FALSE

----------------------------------------------------------------------------
\* C3: a pattern ending in "/*" names directories by the part before the
\* trailing "/*": a pattern starting with "/" names the directories whose
\* path string that part matches in full, any other pattern those whose path
\* string ends with a match of it ("*" standing for any run of characters);
\* the root directory is named by the empty part alone (the pattern "/*").
SingleLevel(pat) == EndsWith(pat, <<SL, STAR>>)

DirPart(pat) == SubSeq(pat, 1, Len(pat) - 2)

NamesDir(pat, dir) ==
    IF dir = <<>> THEN DirPart(pat) = <<>>
    ELSE IF StartsWith(pat, <<SL>>)
    THEN GlobFull(SubSeq(DirPart(pat), 2, Len(DirPart(pat))), JoinParts(dir))
    ELSE GlobAtEnd(DirPart(pat), JoinParts(dir))

\* the ancestor directory of f that is n levels above it
Ancestor(f, n) == SubSeq(f, 1, Len(f) - n)

StarCount(pat) == Cardinality({i \in 1..Len(pat) : pat[i] = STAR})

\* C3 as stated: a covered path is a direct child of a directory the pattern
\* names and is nested more than one level below no directory it names.
C3_Original ==
    (Done /\ SingleLevel(pattern) /\ covered = TRUE) =>
        /\ Len(file) >= 1
        /\ NamesDir(pattern, Ancestor(file, 1))
        /\ \A n \in 2..Len(file) : ~NamesDir(pattern, Ancestor(file, n))

\* C3 as amended: a covered path is a direct child of a directory the pattern
\* names; when the trailing "*" is the pattern's only one, the path is nested
\* more than one level below no directory the pattern names.
C3_SingleLevelMatch ==
    (Done /\ SingleLevel(pattern) /\ covered = TRUE) =>
        /\ Len(file) >= 1
        /\ NamesDir(pattern, Ancestor(file, 1))
        /\ StarCount(pattern) = 1 =>
              \A n \in 2..Len(file) : ~NamesDir(pattern, Ancestor(file, n))

\* a pattern with a further "*" was matched against a path two levels below
\* a directory it names, and rejected a path whose parent it does not name
C3_Witness ==
    /\ Done
    /\ SingleLevel(pattern)
    /\ StarCount(pattern) = 2
    /\ Len(file) = 3
    /\ covered = FALSE
    /\ NamesDir(pattern, Ancestor(file, 2))
    /\ ~NamesDir(pattern, Ancestor(file, 1))

----------------------------------------------------------------------------
\* C4: for a pattern without "*" that does not start with "/", the path is
\* covered iff the pattern without its trailing slashes occurs as a contiguous
\* substring of the path's string form, at any position.
UnanchoredLiteral(pat) == ~HasChar(pat, STAR) /\ ~StartsWith(pat, <<SL>>)

C4_UnanchoredSubstring ==
    (Done /\ UnanchoredLiteral(pattern)) =>
        (covered <=> OccursIn(WithoutTrailingSlashes(pattern), PathStr(file)))

\* the pattern occurs across a segment boundary, not at a segment start, and
\* had a trailing slash
C4_Witness ==
    /\ Done
    /\ UnanchoredLiteral(pattern)
    /\ pattern[Len(pattern)] = SL
    /\ HasChar(WithoutTrailingSlashes(pattern), SL)
    /\ ~StartsWith(PathStr(file), WithoutTrailingSlashes(pattern))
    /\ \A k \in 1..Len(file) :
           ~IsSegPrefix(SegmentsOf(WithoutTrailingSlashes(pattern)),
                        SubSeq(file, k, Len(file)))
    /\ covered = TRUE

----------------------------------------------------------------------------
\* C5: for a pattern containing "*" and not ending in "/*", with "*" standing
\* for any run of characters ("/" included): a pattern starting with "/"
\* covers the path iff the rest of the pattern matches from the first
\* character of the path string; a pattern not starting with "/" covers it iff
\* the pattern matches from some position of the path string.
WildcardOpen(pat) == HasChar(pat, STAR) /\ ~EndsWith(pat, <<SL, STAR>>)

C5_WildcardAnchoring ==
    (Done /\ WildcardOpen(pattern)) =>
        LET str == PathStr(file)
        IN  IF StartsWith(pattern, <<SL>>)
            THEN covered <=> GlobAtStart(SubSeq(pattern, 2, Len(pattern)), str)
            ELSE covered <=> \E k \in 0..Len(str) :
                                GlobAtStart(pattern, SubSeq(str, k + 1, Len(str)))

\* an anchored wildcard pattern that matches inside the path only, with its
\* "*" spanning a "/": not covered, while the same pattern without its "/" is
C5_Witness ==
    /\ Done
    /\ WildcardOpen(pattern)
    /\ StartsWith(pattern, <<SL>>)
    /\ pattern[2] \notin {SL, STAR}
    /\ covered = FALSE
    /\ IsFileCoveredByPattern(<<>>, file, Tail1(pattern)).result
    /\ ~IsFileCoveredByPattern(<<>>, <<file[Len(file)]>>, Tail1(pattern)).result
    /\ Len(file) >= 2

----------------------------------------------------------------------------
(***************************************************************************)
(* Reference notions for the audit, on the rule list in file order.        *)
(***************************************************************************)
Rules == 1..Len(all_entries)

OwnerSet(i) == SetOf(all_entries[i].owners)

\* the location rule i names: the segment sequence of its pattern
NodeOf(i) == PathParts(all_entries[i].pattern)

IsProperPrefix(p, q) == Len(p) < Len(q) /\ SubSeq(q, 1, Len(p)) = p

\* the rules whose pattern is a segment-wise proper ancestor of rule j's
AncestorRules(j) == {i \in Rules : IsProperPrefix(NodeOf(i), NodeOf(j))}

\* the nearest ancestor rule of j among the rules of cand: the deepest
\* location, and of the rules naming it the last declared
NearestIn(cand) ==
    CHOOSE i \in cand : \A k \in cand :
        \/ Len(NodeOf(k)) < Len(NodeOf(i))
        \/ (NodeOf(k) = NodeOf(i) /\ k <= i)

\* rule i is the last rule declared for its location
IsLastForNode(i) == \A k \in Rules : NodeOf(k) = NodeOf(i) => k <= i

Reported(kind, line, other) ==
    \E r \in reports : r.kind = kind /\ r.line = line /\ r.other = other

ReportedRedundant(j) ==
    \E r \in reports : r.kind = ERROR_RULE_IS_INEFFECTIVE
                       /\ r.line = all_entries[j].line_number

----------------------------------------------------------------------------
----------------------------------------------------------------------------
\* C7: whenever two rules of the file have the same pattern and different
\* owner sets, the result contains multiple-folder-owners.
C7_ConflictDetection ==
    Done =>
        \A i, j \in Rules :
            (all_entries[i].pattern = all_entries[j].pattern /\ OwnerSet(i) # OwnerSet(j)) =>
                ERROR_MULTIPLE_FOLDER_OWNERS \in return_code

----------------------------------------------------------------------------
Redeclared(entries) ==
    [i \in 1..Len(entries) |->
        OwnerShipEntry(entries[Len(entries) + 1 - i].pattern,
                       entries[Len(entries) + 1 - i].owners, i)]

DistinctNodes == \A i, j \in Rules : NodeOf(i) = NodeOf(j) => i = j

\* the ancestor rules of j that are the last for their location and name an owner
OwnedAncestorRules(j) ==
    {i \in AncestorRules(j) : IsLastForNode(i) /\ OwnerSet(i) # {}}

----------------------------------------------------------------------------
\* C9: a rule whose owner set differs from that of its nearest ancestor rule
\* is never reported as rule-is-ineffective, even when a more distant
\* ancestor rule has the same owner set; a file of only an ancestor rule and
\* a descendant rule with different owner sets audits to SUCCESS.
C9_RedundancyNonTrigger ==
    Done =>
        \A j \in Rules :
            (/\ AncestorRules(j) # {}
             /\ OwnerSet(j) # OwnerSet(NearestIn(AncestorRules(j)))) =>
                /\ ~ReportedRedundant(j)
                /\ Len(all_entries) = 2 => return_code = SUCCESS

----------------------------------------------------------------------------
\* C10: a rule reported as rule-is-ineffective has no effect on ownership:
\* with that rule deleted from the file, get_owners returns the same owners
\* for every path.
WithoutLine(entries, line) ==
    LET keep == {i \in 1..Len(entries) : entries[i].line_number # line}
    IN  [k \in 1..Cardinality(keep) |->
            entries[CHOOSE i \in keep : Cardinality({q \in keep : q < i}) = k - 1]]

C10_ReportedRuleHasNoEffect ==
    Done =>
        \A r \in reports :
            r.kind = ERROR_RULE_IS_INEFFECTIVE =>
                \A f \in Paths :
                    GetOwners(<<>>, Reversed(WithoutLine(all_entries, r.line)), f).owners
                        = GetOwners(<<>>, Reversed(all_entries), f).owners

----------------------------------------------------------------------------
(***************************************************************************)
(* Reference notions for the parser, on the lines of the file.             *)
(***************************************************************************)
NonBlank(line) == \E j \in 1..Len(line) : line[j] # SPACE

FirstInk(line) == line[CHOOSE j \in 1..Len(line) :
                          line[j] # SPACE /\ \A q \in 1..(j - 1) : line[q] = SPACE]

\* a line that is neither blank nor a comment
IsRuleLine(line) == NonBlank(line) /\ FirstInk(line) # HASH

\* the maximal runs of non-blank characters of a line, as <<first, last>>
TokenSpans(line) ==
    {sp \in (1..Len(line)) \X (1..Len(line)) :
        /\ sp[1] <= sp[2]
        /\ \A q \in sp[1]..sp[2] : line[q] # SPACE
        /\ (sp[1] = 1 \/ line[sp[1] - 1] = SPACE)
        /\ (sp[2] = Len(line) \/ line[sp[2] + 1] = SPACE)}

\* the k-th whitespace-separated token of a line
TokenAt(line, k) ==
    LET sp == CHOOSE x \in TokenSpans(line) :
                  Cardinality({y \in TokenSpans(line) : y[1] < x[1]}) = k - 1
    IN  SubSeq(line, sp[1], sp[2])

RuleLineNumbers == {i \in 1..Len(text) : IsRuleLine(text[i])}

\* C12: parsing yields exactly one rule per line that is neither blank nor a
\* comment, in file order; its pattern is the line's first token, its owners
\* the remaining tokens in order, its source line the 1-based number of the
\* physical line.
C12_ParseOneRulePerLine ==
    Done =>
        /\ Len(all_entries) = Cardinality(RuleLineNumbers)
        /\ \A i, j \in 1..Len(all_entries) :
              i < j => all_entries[i].line_number < all_entries[j].line_number
        /\ \A i \in 1..Len(all_entries) :
              LET e == all_entries[i]
                  n == e.line_number
              IN  /\ n \in RuleLineNumbers
                  /\ e.pattern = TokenAt(text[n], 1)
                  /\ Len(e.owners) = Cardinality(TokenSpans(text[n])) - 1
                  /\ \A k \in 1..Len(e.owners) : e.owners[k] = TokenAt(text[n], k + 1)

\* a file with a skipped indented comment line before a rule with two owners
C12_Witness ==
    /\ Done
    /\ Len(text) = 3
    /\ text[2] = <<SPACE, HASH, "a", SPACE, "b">>
    /\ Len(all_entries) = 2
    /\ all_entries[2].line_number = 3
    /\ Len(all_entries[2].owners) = 2

----------------------------------------------------------------------------
\* C13 as stated: every rule produced by parsing has a non-empty owner
\* sequence and a positive source line number.
C13_Original ==
    Done => \A i \in 1..Len(all_entries) :
                /\ Len(all_entries[i].owners) > 0
                /\ all_entries[i].line_number > 0

\* C13 as amended: every rule produced by parsing has a non-empty pattern and
\* a positive source line number; its owner sequence is empty exactly when
\* its line holds a single token.
C13_RuleShape ==
    Done => \A i \in 1..Len(all_entries) :
                /\ Len(all_entries[i].pattern) > 0
                /\ all_entries[i].line_number > 0
                /\ Len(all_entries[i].owners) = 0
                      <=> Cardinality(TokenSpans(text[all_entries[i].line_number])) = 1

\* a line holding only a pattern was parsed into a rule without owners
C13_Witness ==
    /\ Done
    /\ \E i \in 1..Len(all_entries) :
          /\ all_entries[i].owners = <<>>
          /\ all_entries[i].line_number = 1

----------------------------------------------------------------------------
(***************************************************************************)
(* Reference notions for the existence check.                              *)
(***************************************************************************)
FlaggedMissing(i) ==
    \E r \in reports : r.kind = ERROR_FOLDER_DOESNT_EXIST
                       /\ r.line = all_entries[i].line_number

Anchored(pat) == Len(pat) > 0 /\ pat[1] = SL

HasStar(pat) == \E k \in 1..Len(pat) : pat[k] = STAR

\* the segments of the pattern stripped of its leading "/"
TargetOf(pat) == SegmentsOf(IF Anchored(pat) THEN SubSeq(pat, 2, Len(pat)) ELSE pat)

\* the last n names of a path
LastNames(path, n) == SubSeq(path, Len(path) - n + 1, Len(path))

\* name by name, the globs of segs match the names of path
SegmentsMatch(segs, path) ==
    Len(segs) = Len(path) /\ \A k \in 1..Len(segs) : GlobFull(segs[k], path[k])

\* C14 as stated: for every rule whose pattern holds no "*", anchored or not,
\* folder-doesn't-exist is flagged iff the repository root joined with the
\* pattern stripped of its leading "/" does not exist.
C14_Original ==
    Done =>
        \A i \in Rules :
            ~HasStar(all_entries[i].pattern) =>
                (FlaggedMissing(i) <=> ~FsExists(fs, TargetOf(all_entries[i].pattern)))

\* C14 as amended: a rule whose pattern holds no "*" and starts with "/" is
\* flagged folder-doesn't-exist iff the repository root joined with the
\* pattern stripped of its leading "/" does not exist; one not starting with
\* "/" is flagged iff no entry at any depth of the tree ends with the
\* pattern's segments.
C14_LiteralExistence ==
    Done =>
        \A i \in Rules :
            LET pat == all_entries[i].pattern
            IN  ~HasStar(pat) =>
                    IF Anchored(pat)
                    THEN FlaggedMissing(i) <=> ~FsExists(fs, TargetOf(pat))
                    ELSE FlaggedMissing(i) <=>
                            ~\E q \in fs : /\ Len(q) >= Len(TargetOf(pat))
                                           /\ LastNames(q, Len(TargetOf(pat))) = TargetOf(pat)

\* an unanchored literal rule was satisfied by an entry below the root only
C14_Witness ==
    /\ Done
    /\ Len(all_entries) = 1
    /\ ~HasStar(all_entries[1].pattern)
    /\ ~Anchored(all_entries[1].pattern)
    /\ ~FsExists(fs, TargetOf(all_entries[1].pattern))
    /\ return_code = SUCCESS

----------------------------------------------------------------------------
\* C15: a rule whose pattern holds "*" and starts with "/" is satisfied only
\* by an entry matching the glob at that exact location under the root, one
\* not starting with "/" by a match at any depth; it is flagged
\* folder-doesn't-exist iff the glob has no match.
C15_WildcardExistence ==
    Done =>
        \A i \in Rules :
            LET pat == all_entries[i].pattern
            IN  HasStar(pat) =>
                    IF Anchored(pat)
                    THEN FlaggedMissing(i) <=>
                            ~\E q \in fs : SegmentsMatch(TargetOf(pat), q)
                    ELSE FlaggedMissing(i) <=>
                            ~\E q \in fs : /\ Len(q) >= Len(TargetOf(pat))
                                           /\ SegmentsMatch(TargetOf(pat),
                                                            LastNames(q, Len(TargetOf(pat))))

\* an anchored wildcard rule was flagged although an entry deeper in the tree
\* matches its glob
C15_Witness ==
    /\ Done
    /\ Len(all_entries) = 1
    /\ HasStar(all_entries[1].pattern)
    /\ Anchored(all_entries[1].pattern)
    /\ return_code = {ERROR_FOLDER_DOESNT_EXIST}
    /\ \E q \in fs : /\ Len(q) > Len(TargetOf(all_entries[1].pattern))
                     /\ SegmentsMatch(TargetOf(all_entries[1].pattern),
                                      LastNames(q, Len(TargetOf(all_entries[1].pattern))))

----------------------------------------------------------------------------
\* the categories perform_all_codeowners_checks can report
Categories ==
    {ERROR_FOLDER_DOESNT_EXIST, ERROR_DUPLICATE_LINES, ERROR_MULTIPLE_FOLDER_OWNERS,
     ERROR_RULE_IS_INEFFECTIVE}

\* C11: the combined result of perform_all_codeowners_checks is the union of
\* the categories found by the existence check and by the rule audit: each
\* category flag is present iff a violation of that category was found
\* (reported), and the result is SUCCESS iff none was found.
C11_CombinedResult ==
    Done =>
        /\ return_code \subseteq Categories
        /\ \A kind \in Categories :
              kind \in return_code <=> \E r \in reports : r.kind = kind
        /\ return_code = SUCCESS <=> reports = {}
        /\ (ERROR_FOLDER_DOESNT_EXIST \in return_code)
              <=> \E i \in Rules : \A q \in fs \cup {<<>>} :
                     \/ Len(q) < Len(TargetOf(all_entries[i].pattern))
                     \/ LastNames(q, Len(TargetOf(all_entries[i].pattern)))
                            # TargetOf(all_entries[i].pattern)
                     \/ (Anchored(all_entries[i].pattern)
                            /\ Len(q) # Len(TargetOf(all_entries[i].pattern)))

\* a file with a conflict, a missing target and a redundant rule yields the
\* three categories together
C11_Witness ==
    /\ Done
    /\ Len(all_entries) = 3
    /\ all_entries[1].pattern = all_entries[2].pattern
    /\ all_entries[1].owners # all_entries[2].owners
    /\ IsProperPrefix(NodeOf(2), NodeOf(3))
    /\ all_entries[3].owners = all_entries[2].owners
    /\ ~FsExists(fs, TargetOf(all_entries[3].pattern))
    /\ return_code = {ERROR_MULTIPLE_FOLDER_OWNERS, ERROR_FOLDER_DOESNT_EXIST,
                      ERROR_RULE_IS_INEFFECTIVE}

----------------------------------------------------------------------------
\* C16: resolve_file_in_dir(dir, file) raises whenever the resolved location
\* of file is not inside dir, for an absolute file as for one relative to
\* dir; it returns a path only when that path lies inside dir.
C16_ResolveStaysInDir ==
    pc \in {"done", "raised"} =>
        IF IsSegPrefix(Resolve(repo_dir), Resolve(JoinPath(repo_dir, file)))
        THEN resolved = Resolve(JoinPath(repo_dir, file))
        ELSE resolved = NotInDirectoryError

----------------------------------------------------------------------------
(***************************************************************************)
(* Reference notions for the queries.                                      *)
(***************************************************************************)
Answered == pc \in {"done", "raised"}

\* the location a query path names under the repository root
LocationOf(path) ==
    IF Len(path) > 0 /\ path[1] = <<SL>> THEN SubSeq(path, Len(RepoRoot) + 1, Len(path))
    ELSE path

\* the owners of the last rule covering a location
OwnersAt(loc) ==
    LET cov == CoveringRules(all_entries, loc)
    IN  IF cov = {} THEN <<>>
        ELSE all_entries[CHOOSE i \in cov : \A j \in cov : j <= i].owners

\* what a query of method m answers from the owners of the location
AnswerFrom(m, own) ==
    IF m[1] = "get_owners" THEN own
    ELSE IF m[1] = "get_first_owner" THEN (IF own = <<>> THEN None ELSE own[1])
    ELSE m[2] \in {own[k] : k \in 1..Len(own)}

----------------------------------------------------------------------------
\* C18: pattern matching has no error outcome: for every pattern token and
\* every path, is_file_covered_by_pattern returns true or false and never
\* fails, so get_owners never fails because of rule content.
C18_NoErrorOutcome == pc # "raised"

----------------------------------------------------------------------------
(***************************************************************************)
(* Reference notions for the team-ownership check.                         *)
(***************************************************************************)
CodeownersFile == RepoRoot \o <<GITHUB, CODEOWNERS>>

\* the files the run printed as examined
Examined == {r.node : r \in {q \in reports : q.kind = "files to check"}}

\* codeowners_owner is among the owners of the last rule covering the file
OwnedByCodeownersOwner(f) ==
    codeowners_owner \in SetOf(OwnersAt(LocationOf(f)))

\* C19: given a codeowners_owner, the result is file-without-team-ownership
\* iff at least one examined file other than the CODEOWNERS file is owned by
\* codeowners_owner, and SUCCESS otherwise; the CODEOWNERS file being owned
\* by codeowners_owner never causes a failure; without a codeowners_owner the
\* result is SUCCESS whatever the rules are.
C19_TeamOwnership ==
    Done =>
        IF codeowners_owner = None THEN return_code = SUCCESS
        ELSE /\ return_code \in {SUCCESS, {ERROR_FILE_WITHOUT_TEAM_OWNERSHIP}}
             /\ return_code = {ERROR_FILE_WITHOUT_TEAM_OWNERSHIP}
                   <=> \E f \in Examined : f # CodeownersFile /\ OwnedByCodeownersOwner(f)

\* the CODEOWNERS file was examined and is owned by codeowners_owner, and
\* the result is SUCCESS
C19_Witness ==
    /\ Done
    /\ codeowners_owner = "O"
    /\ CodeownersFile \in Examined
    /\ OwnedByCodeownersOwner(CodeownersFile)
    /\ Cardinality(Examined) > 1
    /\ return_code = SUCCESS

----------------------------------------------------------------------------
\* C20: the files examined are every tracked file when the CODEOWNERS file
\* is among the changed files, and exactly the changed files otherwise;
\* hence a tracked but unchanged file owned by codeowners_owner makes the
\* check fail when CODEOWNERS changed, and is not reported when it did not.
C20_FilesExamined ==
    (Done /\ codeowners_owner # None) =>
        /\ Examined = IF CodeownersFile \in changed_files
                      THEN {RepoRoot \o f : f \in tracked_files}
                      ELSE changed_files
        /\ \A f \in tracked_files :
              (/\ RepoRoot \o f \notin changed_files
               /\ RepoRoot \o f # CodeownersFile
               /\ OwnedByCodeownersOwner(RepoRoot \o f)) =>
                  IF CodeownersFile \in changed_files
                  THEN return_code = {ERROR_FILE_WITHOUT_TEAM_OWNERSHIP}
                  ELSE ~\E r \in reports : /\ r.kind = ERROR_FILE_WITHOUT_TEAM_OWNERSHIP
                                             /\ r.node = RepoRoot \o f

\* only CODEOWNERS changed, and a tracked unchanged file made the check fail
C20_Witness ==
    /\ Done
    /\ changed_files = {CodeownersFile}
    /\ return_code = {ERROR_FILE_WITHOUT_TEAM_OWNERSHIP}
    /\ \E f \in tracked_files : /\ RepoRoot \o f # CodeownersFile
                                /\ OwnedByCodeownersOwner(RepoRoot \o f)

----------------------------------------------------------------------------
\* C23: the redundancy walk examines every node of the rule tree: a node
\* flagged as redundant still becomes first_ancestor for its subtree and its
\* descendants are still visited, so rule-is-ineffective is reported once for
\* each rule (the last of its location, naming an owner) whose owner set
\* equals that of its nearest owned ancestor.
C23_WalkVisitsEveryNode ==
    Done =>
        \A j \in Rules :
            (/\ IsLastForNode(j)
             /\ OwnerSet(j) # {}
             /\ OwnedAncestorRules(j) # {}
             /\ OwnerSet(j) = OwnerSet(NearestIn(OwnedAncestorRules(j)))) =>
                Cardinality({r \in reports : /\ r.kind = ERROR_RULE_IS_INEFFECTIVE
                                             /\ r.line = all_entries[j].line_number}) = 1

----------------------------------------------------------------------------
\* the rules inserted so far, and of those the ones terminating at a node
Inserted == 1..idx

TerminatingAt(node) == {i \in Inserted : NodeOf(i) = node}

LastOf(set) == CHOOSE i \in set : \A k \in set : k <= i

\* every node where an inserted rule terminates carries the owner set and
\* the line of the last such rule; every other node carries neither
TreeCarriesLastRules ==
    \A node \in DOMAIN tree :
        IF TerminatingAt(node) # {}
        THEN /\ tree[node].owners = OwnerSet(LastOf(TerminatingAt(node)))
             /\ tree[node].line_number = all_entries[LastOf(TerminatingAt(node))].line_number
        ELSE tree[node] = OwnerShipTreeNode

\* every re-insertion was reported, as a duplicate or as a conflict, citing
\* the line it replaced and its own line
ReinsertionsReported ==
    \A i, j \in Inserted :
        (/\ i < j
         /\ NodeOf(i) = NodeOf(j)
         /\ \A k \in (i + 1)..(j - 1) : NodeOf(k) # NodeOf(i)) =>
            IF OwnerSet(i) = OwnerSet(j)
            THEN Reported(ERROR_DUPLICATE_LINES, i, j)
            ELSE Reported(ERROR_MULTIPLE_FOLDER_OWNERS, i, j)

\* C24: after inserting any prefix of the rule list in file order, every node
\* at which an inserted rule terminates carries the owner set and source line
\* of the last inserted rule terminating there, every other node carries no
\* owners and no source line, and every re-insertion has been reported
\* (duplicate or conflict, citing the previous line and the new line).
C24_RuleTreeInvariant ==
    (pc = "populate" \/ Done) => (TreeCarriesLastRules /\ ReinsertionsReported)

----------------------------------------------------------------------------
\* C25: a conflict does not mask a redundancy: if some rule's owner set (not
\* empty) equals the owner set of its nearest ancestor rule, the result
\* contains rule-is-ineffective even when that rule's pattern is declared
\* again later with a different owner set.
C25_ConflictKeepsRedundancy ==
    Done =>
        \A j \in Rules :
            (/\ OwnerSet(j) # {}
             /\ AncestorRules(j) # {}
             /\ OwnerSet(j) = OwnerSet(NearestIn(AncestorRules(j)))
             /\ \E k \in Rules : k > j /\ all_entries[k].pattern = all_entries[j].pattern
                                       /\ OwnerSet(k) # OwnerSet(j)) =>
                ERROR_RULE_IS_INEFFECTIVE \in return_code

----------------------------------------------------------------------------
\* the two rules a report cites
RuleOfLine(line) == CHOOSE i \in Rules : all_entries[i].line_number = line

\* C29 as stated: the auditor relates rules only through segment-wise
\* prefixes of their pattern text; a rule whose pattern does not start with
\* "/" (the catch-all "*" or any other) and a rule whose pattern starts with
\* "/" never produce rule-is-ineffective, duplicate-lines or
\* multiple-folder-owners against each other.
C29_Original ==
    Done =>
        \A r \in reports :
            Anchored(all_entries[RuleOfLine(r.line)].pattern)
                = Anchored(all_entries[RuleOfLine(r.other)].pattern)

\* C29 as amended: every report cites two rules of which one pattern is a
\* segment-wise prefix of the other; a rule whose pattern does not start with
\* "/" and names at least one path segment (the catch-all "*", a bare name)
\* and a rule whose pattern starts with "/" never produce a report against
\* each other, whatever their owner sets and declaration order.
C29_CrossAnchoring ==
    Done =>
        \A r \in reports :
            LET i == RuleOfLine(r.line)
                j == RuleOfLine(r.other)
            IN  /\ IsSegPrefix(NodeOf(i), NodeOf(j)) \/ IsSegPrefix(NodeOf(j), NodeOf(i))
                /\ (NodeOf(i) # <<>> /\ NodeOf(j) # <<>>) =>
                       Anchored(all_entries[i].pattern) = Anchored(all_entries[j].pattern)

\* the catch-all and an anchored rule with the same owners, declared in
\* either order beside a third rule, were audited and nothing was reported
C29_Witness ==
    /\ Done
    /\ Len(all_entries) = 3
    /\ \E i, j \in Rules : /\ all_entries[i].pattern = <<STAR>>
                           /\ all_entries[j].pattern = <<SL, "a">>
                           /\ OwnerSet(i) = OwnerSet(j)
                           /\ OwnerSet(i) # {}
                           /\ j < i
    /\ return_code = SUCCESS

----------------------------------------------------------------------------
\* the last rule in file order covering a path names no owner
LastCoveringIsOwnerless(f) ==
    \E cov \in {CoveringRules(all_entries, f)} :
        /\ cov # {}
        /\ all_entries[LastOf(cov)].owners = <<>>

\* the paths the audited patterns tell apart: under "a", under "a/b", and
\* outside both
OwnerlessProbes ==
    { <<<<"a">>>>, <<<<"b">>>>, <<<<"a">>, <<"a">>>>, <<<<"a">>, <<"b">>>>,
      <<<<"b">>, <<"a">>>>, <<<<"a">>, <<"b">>, <<"a">>>>,
      <<<<"a">>, <<"b">>, <<"b">>>> }

\* the three queries answer "no owner" for the path
AnswersNoOwner(f) ==
    /\ QueryGetOwners(<<>>, Reversed(all_entries), RepoRoot, RepoRoot \o f).owners = <<>>
    /\ QueryGetFirstOwner(<<>>, Reversed(all_entries), RepoRoot, RepoRoot \o f).owners = None
    /\ \A o \in {"X", "Y"} :
          ~QueryIsOwnedBy(<<>>, Reversed(all_entries), RepoRoot, RepoRoot \o f, o).owners

\* the rule declared last before rule j for the same location, if any
EarlierAt(j) == {k \in Rules : k < j /\ NodeOf(k) = NodeOf(j)}

ReportedFor(kind, j) == \E r \in reports : r.kind = kind /\ r.other = j

\* C30 as stated: a line holding a pattern and no owners is kept as a rule
\* with an empty owner sequence: when it is the last rule covering a path,
\* get_owners returns the empty sequence, get_first_owner is absent and
\* is_owned_by is false for every owner; in the auditor such a rule clears
\* the node's owners without any duplicate or conflict report being made
\* for it.
C30_Original ==
    Done =>
        /\ \A f \in OwnerlessProbes : LastCoveringIsOwnerless(f) => AnswersNoOwner(f)
        /\ \A j \in Rules :
              OwnerSet(j) = {} =>
                  /\ IsLastForNode(j) => tree[NodeOf(j)].owners = {}
                  /\ ~ReportedFor(ERROR_DUPLICATE_LINES, j)
                  /\ ~ReportedFor(ERROR_MULTIPLE_FOLDER_OWNERS, j)

\* C30 as amended: the queries answer as stated; in the auditor an ownerless
\* rule clears the node's owners and is never reported as a duplicate, and a
\* conflict is reported for it exactly when the rule declared last before it
\* for the same location names an owner.
C30_OwnerlessRule ==
    Done =>
        /\ \A f \in OwnerlessProbes : LastCoveringIsOwnerless(f) => AnswersNoOwner(f)
        /\ \A j \in Rules :
              OwnerSet(j) = {} =>
                  /\ IsLastForNode(j) =>
                        tree[NodeOf(j)] = [owners |-> {},
                                           line_number |-> all_entries[j].line_number]
                  /\ ~ReportedFor(ERROR_DUPLICATE_LINES, j)
                  /\ ReportedFor(ERROR_MULTIPLE_FOLDER_OWNERS, j)
                        <=> (EarlierAt(j) # {} /\ OwnerSet(LastOf(EarlierAt(j))) # {})

\* an ownerless rule declared after a rule with an owner for the same
\* location: the path has no owner, and the conflict was reported
C30_Witness ==
    /\ Done
    /\ Len(all_entries) = 2
    /\ all_entries[1].pattern = <<SL, "a">>
    /\ all_entries[2].pattern = <<SL, "a">>
    /\ all_entries[1].owners = <<"X">>
    /\ all_entries[2].owners = <<>>
    /\ AnswersNoOwner(<<<<"a">>, <<"b">>>>)
    /\ Reported(ERROR_MULTIPLE_FOLDER_OWNERS, 1, 2)
    /\ tree[NodeOf(2)].owners = {}

----------------------------------------------------------------------------
\* the pattern read as a glob in which only "*" is a wildcard: matched from
\* the first character of the path string when it starts with "/", from any
\* position otherwise
LiteralGlobCovers(pat, str) ==
    IF StartsWith(pat, <<SL>>)
    THEN GlobAtStart(SubSeq(pat, 2, Len(pat)), str)
    ELSE \E k \in 0..Len(str) : GlobAtStart(pat, SubSeq(str, k + 1, Len(str)))

\* C27: in a pattern containing "*", only "*" is a wildcard: every other
\* character of the pattern (the "." of "/test_*.c") matches exactly that
\* character in the path; so a covered path matches the pattern read that
\* way, and a path matching it is covered (unless the pattern ends in "/*",
\* which also compares the file name).
C27_OnlyStarIsWildcard ==
    (Done /\ HasChar(pattern, STAR)) =>
        /\ covered => LiteralGlobCovers(pattern, PathStr(file))
        /\ (WildcardOpen(pattern) /\ LiteralGlobCovers(pattern, PathStr(file))) => covered

----------------------------------------------------------------------------
\* the paths of the domain that have f as a proper segment-wise ancestor
DescendantsOf(f) == {q \in Paths \cup DotFiles : Len(q) > Len(f) /\ SubSeq(q, 1, Len(f)) = f}

\* C28 as stated: coverage is closed under descent: for every pattern that
\* does not end in "/*" (anchored or not, with or without "*"), a path that
\* is covered has every path below it covered too.
C28_Original ==
    (Done /\ ~EndsWith(pattern, <<SL, STAR>>) /\ covered = TRUE) =>
        \A q \in DescendantsOf(file) : IsFileCoveredByPattern(<<>>, q, pattern).result

\* C28 as amended: for every pattern that does not end in "/*", a covered
\* path other than the repository root Path(".") has every path below it
\* covered too.
C28_ClosedUnderDescent ==
    (Done /\ ~EndsWith(pattern, <<SL, STAR>>) /\ covered = TRUE /\ file # <<>>) =>
        \A q \in DescendantsOf(file) : IsFileCoveredByPattern(<<>>, q, pattern).result

\* a directory covered by an anchored pattern without "*", with a file two
\* levels below it in the domain
C28_Witness ==
    /\ Done
    /\ pattern = <<SL, "a">>
    /\ file = <<<<"a">>>>
    /\ covered = TRUE
    /\ <<<<"a">>, <<"x">>, <<"a">>>> \in DescendantsOf(file)

----------------------------------------------------------------------------
\* C26: CachedRegex is a transparent wrapper around re.match: each call
\* returns what an uncached re.match(needle, haystack, flags) would return,
\* independent of earlier calls (also of calls with the same needle and
\* other flags), raising when re.match raises; the cache holds an entry for
\* each needle that was compiled.
C26_TransparentWrapper ==
    /\ Done => /\ covered = ReMatch(pattern, file, method[2])
               /\ ~ReCompileRaises(pattern)
               /\ pattern \in DOMAIN cache
    /\ pc = "raised" => ReCompileRaises(pattern)

----------------------------------------------------------------------------
\* C21: two indexes built by parsing the same CODEOWNERS text hold the same
\* rules in the same (reversed file) order, and answer every get_owners,
\* get_first_owner, is_owned_by and is_file_covered_by_pattern call alike
\* (same result, same error), whatever queries either has answered before.
C21_SameAnswers ==
    /\ ownerships = twin._ownerships
    /\ \A m \in Methods, f \in TwinFiles :
          /\ MethodCall(Self, m, f).result = MethodCall(twin, m, f).result
          /\ MethodCall(Self, m, f).raised = MethodCall(twin, m, f).raised

\* the two objects have answered different queries: one has compiled a
\* pattern the other has not, and both hold a wildcard rule with an owner
C21_Witness ==
    /\ Done
    /\ DOMAIN cache \ DOMAIN twin._cached_regex # {}
    /\ DOMAIN twin._cached_regex \ DOMAIN cache # {}
    /\ \E i \in 1..Len(ownerships) : /\ HasChar(ownerships[i].pattern, STAR)
                                     /\ ownerships[i].owners # <<>>

----------------------------------------------------------------------------
\* C22: the parsed index is read-only: after any sequence of queries each
\* object holds the rules of the file, with their patterns, owners and source
\* lines, in reverse file order as right after parsing, and its repository
\* root; the compiled-pattern cache is the only attribute a query changes.
C22_IndexReadOnly ==
    /\ [](/\ ownerships = Reversed(all_entries)
          /\ repo_dir = RepoRoot
          /\ twin._ownerships = Reversed(all_entries)
          /\ twin._repo_dir = RepoRoot)
    /\ [][/\ ownerships' = ownerships
          /\ repo_dir' = repo_dir
          /\ twin'._ownerships = twin._ownerships
          /\ twin'._repo_dir = twin._repo_dir]_vars

\* queries that compiled two patterns were answered by an index of two rules
C22_Witness ==
    /\ Done
    /\ Len(ownerships) = 2
    /\ Cardinality(DOMAIN cache) = 2
    /\ twin._cached_regex # <<>>

====
